---- MODULE Spec2Model ----
(***************************************************************************)
(* Model of SWGOHDataContext (src/swgoh_data_context.py): the Territory    *)
(* War log parser _parse_tw_attacks and the values it reads and returns,   *)
(* and the aggregators and reports computed from its two record sequences. *)
(*                                                                         *)
(* State: tw_data, guild_id and guild_data are the fields of the context;  *)
(* our_attacks, opponent_attacks and parse_status hold what the last call  *)
(* of _parse_tw_attacks returned; call and ret hold the last call of       *)
(* another method (its name and arguments) and its outcome.                *)
(*                                                                         *)
(* JSON / Python values are tagged tuples:                                 *)
(*   <<"null">>            None / JSON null                                *)
(*   <<"str", s>>          a str whose characters are never inspected      *)
(*   <<"chars", <<c,..>>>> a str that the code inspects character-wise     *)
(*   <<"int", n>>          an int                                          *)
(*   <<"list", <<v,..>>>>  a list                                          *)
(*   <<"obj", f>>          a dict: f maps the keys that are present        *)
(* A key that is absent from a dict is absent from DOMAIN f.               *)
(***************************************************************************)
EXTENDS Integers, Sequences, FiniteSets, TLC

VARIABLES tw_data, guild_id, our_attacks, opponent_attacks, parse_status,
          guild_data, call, ret, chat_history, menu

vars == <<tw_data, guild_id, our_attacks, opponent_attacks, parse_status,
          guild_data, call, ret, chat_history, menu>>

----------------------------------------------------------------------------
(* Python values *)

Null == <<"null">>
StrV(s) == <<"str", s>>
CharsV(cs) == <<"chars", cs>>
IntV(n) == <<"int", n>>
ListV(s) == <<"list", s>>
ObjV(f) == <<"obj", f>>

EmptyObj == ObjV([k \in {} |-> Null])
EmptyList == ListV(<<>>)
EmptyStr == StrV("")

Tag(v) == v[1]
IsObj(v) == Tag(v) = "obj"
IsList(v) == Tag(v) = "list"

\* bool(v): None, '', 0, [] and {} are falsy, everything else is truthy.
Truthy(v) ==
  CASE Tag(v) = "null" -> FALSE
    [] Tag(v) = "str" -> v[2] # ""
    [] Tag(v) = "chars" -> Len(v[2]) > 0
    [] Tag(v) = "int" -> v[2] # 0
    [] Tag(v) = "list" -> Len(v[2]) > 0
    [] Tag(v) = "obj" -> DOMAIN v[2] # {}

\* dict.get(k, d) on a dict o: the default only replaces an absent key, a key
\* that is present with value None yields None.
Get(o, k, d) == IF k \in DOMAIN o[2] THEN o[2][k] ELSE d

\* Outcome of a statement: it raised exception exc, or it produced val.
Raise(e) == [exc |-> e, val |-> Null]
Ok(v) == [exc |-> "none", val |-> v]
Raised(r) == r.exc # "none"

\* No method other than _parse_tw_attacks has been called yet.
NoCall == [op |-> "none", args |-> <<>>]

\* x.get(k, d): AttributeError unless x is a dict.
DotGet(x, k, d) == IF IsObj(x) THEN Ok(Get(x, k, d)) ELSE Raise("AttributeError")

----------------------------------------------------------------------------
(* int(str) *)

Digits == <<"0", "1", "2", "3", "4", "5", "6", "7", "8", "9">>
IsSpace(c) == c = " "

RECURSIVE LStrip(_)
LStrip(cs) == IF Len(cs) > 0 /\ IsSpace(Head(cs)) THEN LStrip(Tail(cs)) ELSE cs

RECURSIVE RStrip(_)
RStrip(cs) ==
  IF Len(cs) > 0 /\ IsSpace(cs[Len(cs)])
  THEN RStrip(SubSeq(cs, 1, Len(cs) - 1))
  ELSE cs

RECURSIVE DigitsValue(_, _)
DigitsValue(cs, acc) ==
  LET DigitVal(c) == (CHOOSE i \in 1..10 : Digits[i] = c) - 1
  IN
  IF Len(cs) = 0 THEN acc
  ELSE IF Head(cs) = "_" THEN DigitsValue(Tail(cs), acc)
  ELSE DigitsValue(Tail(cs), 10 * acc + DigitVal(Head(cs)))

\* int(v): an int is returned as it is; a str is stripped, may carry one sign
\* and must then be decimal digits (ValueError otherwise); None, lists and
\* dicts raise TypeError.
PyInt(v) ==
  LET IsDigit(c) == \E i \in 1..10 : Digits[i] = c
  IN
  LET \* The digits of an int literal body: digits, single underscores between them.
      WellFormedDigits(cs) ==
        /\ Len(cs) > 0
        /\ IsDigit(cs[1])
        /\ IsDigit(cs[Len(cs)])
        /\ \A i \in 1..Len(cs) : IsDigit(cs[i]) \/ cs[i] = "_"
        /\ \A i \in 1..(Len(cs) - 1) : ~(cs[i] = "_" /\ cs[i + 1] = "_")
  IN
  CASE Tag(v) = "int" -> Ok(v[2])
    [] Tag(v) = "chars" ->
         LET s == RStrip(LStrip(v[2]))
             signed == Len(s) > 0 /\ s[1] \in {"+", "-"}
             body == IF signed THEN Tail(s) ELSE s
         IN IF WellFormedDigits(body)
            THEN Ok(IF signed /\ s[1] = "-"
                    THEN 0 - DigitsValue(body, 0)
                    ELSE DigitsValue(body, 0))
            ELSE Raise("ValueError")
    [] OTHER -> Raise("TypeError")

----------------------------------------------------------------------------
(* _parse_tw_attacks: the body of the loop over the events *)

SQUAD_WIN == "TERRITORY_CHANNEL_ACTIVITY_CONFLICT_SQUAD_WIN"
EMPTY == "EMPTY"
DEFENSE_DEPLOY == "TERRITORY_CHANNEL_ACTIVITY_CONFLICT_DEFENSE_DEPLOY"

IsWinKey(event_type) == event_type = StrV(SQUAD_WIN)

\* Faulty variant of SkipEvent: the test for an EMPTY event without warSquad
\* is left out.
SkipEventKeyOnly(is_win, is_hold, war_squad) == ~is_win /\ ~is_hold

\* The two `continue` statements: an EMPTY event without warSquad, and an
\* event that is neither SQUAD_WIN nor EMPTY.
SkipEvent(is_win, is_hold, war_squad) ==
  \/ is_hold /\ ~Truthy(war_squad)
  \/ ~is_win /\ ~is_hold

\* banners: param[0].paramValue[0] through int(); only ValueError and
\* IndexError are caught.
ExtractBanners(activity_log) ==
  LET params == Get(activity_log, "param", EmptyList)
  IN IF ~(Truthy(params) /\ Len(params[2]) > 0) THEN Ok(0)
     ELSE LET param_values == DotGet(params[2][1], "paramValue", EmptyList)
          IN IF Raised(param_values) THEN param_values
             ELSE IF ~Truthy(param_values.val) THEN Ok(0)
             ELSE LET n == PyInt(param_values.val[2][1])
                  IN IF n.exc \in {"ValueError", "IndexError"} THEN Ok(0) ELSE n

\* ':' in s
HasColon(cs) == \E i \in 1..Len(cs) : cs[i] = ":"

\* s.split(':')[0]
RECURSIVE BeforeColon(_)
BeforeColon(cs) ==
  IF Len(cs) = 0 \/ Head(cs) = ":" THEN <<>>
  ELSE <<Head(cs)>> \o BeforeColon(Tail(cs))

\* Faulty variant of StripSuffix: a unitDefId without ':' gives no leader.
StripSuffixColonOnly(unit_def_id) ==
  IF Tag(unit_def_id) # "chars" THEN Raise("TypeError")
  ELSE IF HasColon(unit_def_id[2])
  THEN Ok(CharsV(BeforeColon(unit_def_id[2])))
  ELSE Ok(Null)

\* The character id of a unitDefId such as CHIEFCHIRPA:SEVEN_STAR.
StripSuffix(unit_def_id) ==
  IF Tag(unit_def_id) # "chars" THEN Raise("TypeError")
  ELSE IF HasColon(unit_def_id[2])
  THEN Ok(CharsV(BeforeColon(unit_def_id[2])))
  ELSE Ok(unit_def_id)

\* for cell in cells: the first cell whose cellIndex == 0 decides, then break.
RECURSIVE LeaderOfCells(_)
LeaderOfCells(cells) ==
  IF Len(cells) = 0 THEN Ok(Null)
  ELSE LET cell == Head(cells)
           cell_index == DotGet(cell, "cellIndex", Null)
       IN IF Raised(cell_index) THEN cell_index
          ELSE IF cell_index.val = IntV(0)
          THEN StripSuffix(Get(cell, "unitDefId", CharsV(<<>>)))
          ELSE LeaderOfCells(Tail(cells))

\* defending_leader of a warSquad.
ExtractLeader(war_squad) ==
  LET squad == IF Truthy(war_squad) THEN DotGet(war_squad, "squad", Null) ELSE Ok(Null)
  IN IF Raised(squad) THEN squad
     ELSE LET cells == IF Truthy(squad.val)
                       THEN DotGet(squad.val, "cell", EmptyList)
                       ELSE Ok(EmptyList)
          IN IF Raised(cells) THEN cells
             ELSE IF ~Truthy(cells.val) THEN Ok(Null)
             ELSE IF ~IsList(cells.val) THEN Raise("TypeError")
             ELSE LeaderOfCells(cells.val[2])

\* Faulty variant of ResultType: squadStatus is not looked at.
ResultTypeKeyOnly(is_win, squad_status) == IF is_win THEN "win" ELSE "hold"

ResultType(is_win, squad_status) ==
  IF is_win \/ squad_status = IntV(3) THEN "win" ELSE "hold"

\* Faulty variant of AttackKey: successfulDefends is not part of the key.
AttackKeyNoDefends(info, war_squad, defending_leader) ==
  <<Get(info, "authorId", EmptyStr),
    Get(war_squad, "playerId", EmptyStr),
    defending_leader,
    IntV(0)>>

\* (attacker, defender, leader, successfulDefends)
AttackKey(info, war_squad, defending_leader) ==
  <<Get(info, "authorId", EmptyStr),
    Get(war_squad, "playerId", EmptyStr),
    defending_leader,
    Get(war_squad, "successfulDefends", IntV(0))>>

AttackData(info, war_squad, zone_data, defending_leader, banners, is_win, result_type) ==
  [attacker_id |-> Get(info, "authorId", EmptyStr),
   attacker_name |-> Get(info, "authorName", EmptyStr),
   defender_id |-> Get(war_squad, "playerId", EmptyStr),
   defender_name |-> Get(war_squad, "playerName", EmptyStr),
   defending_leader |-> defending_leader,
   zone_id |-> Get(zone_data, "zoneId", EmptyStr),
   attacking_guild_id |-> Get(zone_data, "guildId", EmptyStr),
   banners |-> banners,
   squad_power |-> Get(war_squad, "power", IntV(0)),
   is_win |-> is_win,
   result_type |-> result_type]

Abort(e) == [kind |-> "raise", exc |-> e]
Skip == [kind |-> "skip"]
Attack(key, data) == [kind |-> "attack", key |-> key, data |-> data]

\* One pass of the loop body up to the duplicate test: the event raises, is
\* skipped, or gives an attack candidate with its dedup key.
ProcessEvent(event) ==
  LET IsHoldKey(event_type) == event_type = StrV(EMPTY)
  IN
  LET payload == Get(event, "payload", EmptyObj)
      zone_data == DotGet(payload, "zoneData", EmptyObj)
  IN IF Raised(zone_data) THEN Abort(zone_data.exc) ELSE
  LET activity_log == DotGet(zone_data.val, "activityLogMessage", EmptyObj)
  IN IF Raised(activity_log) THEN Abort(activity_log.exc) ELSE
  LET event_type == DotGet(activity_log.val, "key", EmptyStr)
  IN IF Raised(event_type) THEN Abort(event_type.exc) ELSE
  LET is_win == IsWinKey(event_type.val)
      is_hold == IsHoldKey(event_type.val)
      war_squad == Get(payload, "warSquad", EmptyObj)
  IN IF SkipEvent(is_win, is_hold, war_squad) THEN Skip ELSE
  LET info == Get(event, "info", EmptyObj)
      banners == ExtractBanners(activity_log.val)
  IN IF Raised(banners) THEN Abort(banners.exc) ELSE
  LET defending_leader == ExtractLeader(war_squad)
  IN IF Raised(defending_leader) THEN Abort(defending_leader.exc) ELSE
  LET squad_status == DotGet(war_squad, "squadStatus", Null)
  IN IF Raised(squad_status) THEN Abort(squad_status.exc) ELSE
  IF ~IsObj(info) THEN Abort("AttributeError") ELSE
  Attack(AttackKey(info, war_squad, defending_leader.val),
         AttackData(info, war_squad, zone_data.val, defending_leader.val,
                    banners.val, is_win, ResultType(is_win, squad_status.val)))

\* Faulty variant of IsOurs: the test is inverted.
IsOursInverted(attack_data, gid) == attack_data.attacking_guild_id # gid

\* attack_data['attacking_guild_id'] == self.guild_id
IsOurs(attack_data, gid) == attack_data.attacking_guild_id = gid

\* Faulty variant of OnDuplicate: a later win of the same attacker on the same
\* squad turns the record that was kept into a win.
OnDuplicatePromote(st, r) ==
  LET Same(a) == /\ a.attacker_id = r.data.attacker_id
                 /\ a.defender_id = r.data.defender_id
                 /\ a.defending_leader = r.data.defending_leader
      Promote(a) == IF Same(a) /\ r.data.result_type = "win"
                    THEN [a EXCEPT !.result_type = "win", !.is_win = TRUE]
                    ELSE a
  IN [st EXCEPT !.our = [n \in 1..Len(@) |-> Promote(@[n])],
                !.opp = [n \in 1..Len(@) |-> Promote(@[n])]]

\* The duplicate is skipped with `continue`: nothing changes.
OnDuplicate(st, r) == st

\* The loop: st holds our_attacks, opponent_attacks, seen_attacks and the
\* exception that ended the loop, if any.
RECURSIVE ParseEvents(_, _, _)
ParseEvents(events, gid, st) ==
  LET \* seen_attacks.add(attack_key), then the record is appended to the list of
      \* its guild.
      Retain(kept, r, own) ==
        IF IsOurs(r.data, own)
        THEN [kept EXCEPT !.our = Append(@, r.data), !.seen = @ \cup {r.key}]
        ELSE [kept EXCEPT !.opp = Append(@, r.data), !.seen = @ \cup {r.key}]
  IN
  LET \* if attack_key in seen_attacks
      AlreadySeen(attack_key, seen_attacks) == attack_key \in seen_attacks
  IN
  IF Len(events) = 0 THEN st
  ELSE LET r == ProcessEvent(Head(events))
       IN IF r.kind = "raise" THEN [st EXCEPT !.exc = r.exc]
          ELSE IF r.kind = "skip" THEN ParseEvents(Tail(events), gid, st)
          ELSE IF AlreadySeen(r.key, st.seen)
          THEN ParseEvents(Tail(events), gid, OnDuplicate(st, r))
          ELSE ParseEvents(Tail(events), gid, Retain(st, r, gid))

\* self.tw_data.get('data', self.tw_data.get('events', []))
EventsOf(doc) == Get(doc, "data", Get(doc, "events", EmptyList))

\* The whole of _parse_tw_attacks on a context (tw_data, guild_id).
ParseResult(doc, gid) ==
  IF ~Truthy(doc) THEN [our |-> <<>>, opp |-> <<>>, seen |-> {}, exc |-> "none"]
  ELSE ParseEvents(EventsOf(doc)[2], gid,
                   [our |-> <<>>, opp |-> <<>>, seen |-> {}, exc |-> "none"])

----------------------------------------------------------------------------
(* The event lists the parser is run on *)

MaxEvents == 2
MaxLongEvents == 3

Guild1 == StrV("G1")
Guild2 == StrV("G2")

\* A file of the data directory that does not exist.
NoFile == [exists |-> FALSE, content |-> <<>>]

\* SWGOHMenu.__init__: the guild id of the environment, the two cache files
\* of the data directory as they are found, and no data context.
NewMenu ==
  [guild_id |-> Guild1, tw_logs_file |-> NoFile, guild_data_file |-> NoFile,
   context |-> FALSE]

Cell(cell_index, unit_def_id) ==
  ObjV([cellIndex |-> IntV(cell_index), unitDefId |-> CharsV(unit_def_id)])

WarSquad(player_id, player_name, squad_status, successful_defends, power, cells) ==
  ObjV([playerId |-> StrV(player_id),
        playerName |-> StrV(player_name),
        squadStatus |-> IntV(squad_status),
        successfulDefends |-> IntV(successful_defends),
        power |-> IntV(power),
        squad |-> ObjV([cell |-> ListV(cells)])])

Param(value) == ListV(<<ObjV([paramValue |-> ListV(<<value>>)])>>)

Event(key, gid, author_id, author_name, param, war_squad) ==
  ObjV([payload |->
          ObjV([zoneData |->
                  ObjV([activityLogMessage |-> ObjV([key |-> StrV(key), param |-> param]),
                        zoneId |-> StrV("zone1"),
                        guildId |-> gid]),
                warSquad |-> war_squad]),
        info |-> ObjV([authorId |-> StrV(author_id), authorName |-> StrV(author_name)])])

\* v with the value at path replaced by x (dict keys and 1-based list indexes).
RECURSIVE SetPath(_, _, _)
SetPath(v, path, x) ==
  IF Len(path) = 0 THEN x
  ELSE IF IsObj(v)
  THEN ObjV([f \in DOMAIN v[2] \cup {Head(path)} |->
               IF f = Head(path)
               THEN SetPath(IF f \in DOMAIN v[2] THEN v[2][f] ELSE EmptyObj, Tail(path), x)
               ELSE v[2][f]])
  ELSE ListV([v[2] EXCEPT ![Head(path)] = SetPath(@, Tail(path), x)])

\* v without the dict key that path ends in.
RECURSIVE DelPath(_, _)
DelPath(v, path) ==
  IF IsObj(v)
  THEN IF Len(path) = 1
       THEN ObjV([f \in DOMAIN v[2] \ {Head(path)} |-> v[2][f]])
       ELSE ObjV([f \in DOMAIN v[2] |->
                    IF f = Head(path) THEN DelPath(v[2][f], Tail(path)) ELSE v[2][f]])
  ELSE ListV([v[2] EXCEPT ![Head(path)] = DelPath(@, Tail(path))])

LeaderCells == <<Cell(0, <<"K", ":", "7">>), Cell(1, <<"M", ":", "7">>)>>

BobSquad(squad_status, successful_defends) ==
  WarSquad("B", "Bob", squad_status, successful_defends, 50000, LeaderCells)

\* The event of the scenario: Alice of the own guild beats Bob for 42 banners.
BaseEvent ==
  Event(SQUAD_WIN, Guild1, "A", "Alice", Param(CharsV(<<"4", "2">>)), BobSquad(3, 0))

\* Shapes of activityLogMessage.param.
BannerEvents ==
  { SetPath(BaseEvent, <<"payload", "zoneData", "activityLogMessage", "param">>, param) :
      param \in { EmptyList, Null,
                  ListV(<<EmptyObj>>),
                  ListV(<<ObjV([paramValue |-> EmptyList])>>),
                  Param(Null),
                  Param(IntV(15)),
                  Param(CharsV(<<"n", "a", "n">>)),
                  Param(CharsV(<<"-", "5">>)),
                  Param(CharsV(<<" ", "6", "0">>)),
                  ListV(<<ObjV([paramValue |-> ListV(<<CharsV(<<"3">>), CharsV(<<"x">>)>>)])>>) } }
  \cup { DelPath(BaseEvent, <<"payload", "zoneData", "activityLogMessage", "param">>) }

MalformedEvents ==
  LET \* A nested field that is null or missing.
      MalformedPaths ==
        { <<"payload">>, <<"info">>,
          <<"payload", "zoneData">>, <<"payload", "warSquad">>,
          <<"payload", "zoneData", "activityLogMessage">>,
          <<"payload", "warSquad", "squad">>,
          <<"payload", "warSquad", "squad", "cell">>,
          <<"info", "authorId">> }
  IN
  { SetPath(BaseEvent, path, Null) : path \in MalformedPaths }
  \cup { DelPath(BaseEvent, path) : path \in MalformedPaths }
  \cup { SetPath(BaseEvent, <<"payload", "warSquad", "squad", "cell", 1>>, Null),
         SetPath(BaseEvent, <<"payload", "zoneData", "activityLogMessage", "param", 1>>, Null) }

\* Well-formed events that stand next to the events of one family.
Companions ==
  { BaseEvent,
    Event(EMPTY, Guild2, "C", "Carol", Param(CharsV(<<"7">>)),
          WarSquad("D", "Dave", 1, 0, 60000, <<Cell(0, <<"V", ":", "7">>)>>)) }

\* Every list of events is drawn from one of these families.
EventFamilies ==
  LET \* A warSquad that is missing from the payload (no value of the dict).
      NoSquad == <<"absent">>
  IN
  LET \* Shapes of warSquad.squad.cell.
      LeaderEvents ==
        { SetPath(BaseEvent, <<"payload", "warSquad", "squad", "cell">>, ListV(cells)) :
            cells \in { <<>>,
                        <<Cell(0, <<"K">>)>>,
                        <<Cell(0, <<":", "7">>)>>,
                        <<Cell(0, <<"K", ":", "7", ":", "Z">>)>>,
                        <<Cell(1, <<"M", ":", "7">>)>>,
                        <<Cell(1, <<"M", ":", "7">>), Cell(0, <<"K", ":", "7">>)>>,
                        <<Cell(0, <<"K", ":", "7">>), Cell(0, <<"V", ":", "7">>)>>,
                        <<DelPath(Cell(0, <<"K">>), <<"unitDefId">>)>>,
                        <<DelPath(Cell(0, <<"K">>), <<"cellIndex">>), Cell(0, <<"V">>)>>,
                        <<SetPath(Cell(0, <<"K">>), <<"unitDefId">>, Null)>> } }
  IN
  LET \* Events that differ from a hold and a win of Alice on Bob's squad in one
      \* component of the dedup key, or in the fields that are not part of it.
      KeyEvents ==
        { Event(key, Guild1, v[1], "Alice", Param(CharsV(<<"7">>)),
                WarSquad(v[2], "Bob", 1, v[3], 50000, v[4])) :
            key \in {SQUAD_WIN, EMPTY},
            v \in { <<"A", "B", 0, LeaderCells>>,
                    <<"C", "B", 0, LeaderCells>>,
                    <<"A", "D", 0, LeaderCells>>,
                    <<"A", "B", 1, LeaderCells>>,
                    <<"A", "B", 0, <<Cell(0, <<"V", ":", "7">>)>> >> } }
        \cup { Event(key, Guild2, "A", "Zed", Param(CharsV(<<"9">>)),
                     WarSquad("B", "Bea", 1, 0, 60000, LeaderCells)) :
                 key \in {SQUAD_WIN, EMPTY} }
  IN
  LET \* Event kinds: every key against every shape of warSquad.
      KindEvents ==
        LET EventOf(key, gid, author_id, author_name, param, war_squad) ==
              IF war_squad = NoSquad
              THEN DelPath(Event(key, gid, author_id, author_name, param, EmptyObj),
                           <<"payload", "warSquad">>)
              ELSE Event(key, gid, author_id, author_name, param, war_squad)
        IN
        { EventOf(key, Guild1, "A", "Alice", Param(CharsV(<<"4", "2">>)), ws) :
            key \in {SQUAD_WIN, EMPTY, DEFENSE_DEPLOY},
            ws \in {NoSquad, EmptyObj, BobSquad(1, 0), BobSquad(2, 0), BobSquad(3, 0)} }
  IN
  { KindEvents \cup KeyEvents,
    BannerEvents \cup Companions,
    LeaderEvents \cup Companions,
    MalformedEvents \cup Companions }

\* A loaded document holds its events under data (new) or events (old).
Document(events) == ObjV([data |-> ListV(events)])

----------------------------------------------------------------------------
(* The context and the calls on it *)

\* A context on which load_tw_logs has or has not succeeded; no call yet.
Init ==
  LET \* The events of the long lists: wins and holds on one squad that has held
      \* zero, one or two times, by an attacker of either guild.
      LongEvents ==
        { Event(key, v[1], "A", "Alice", Param(CharsV(<<"7">>)), BobSquad(1, v[2])) :
            key \in {SQUAD_WIN, EMPTY},
            v \in { <<Guild1, 0>>, <<Guild1, 1>>, <<Guild2, 0>>, <<Guild2, 2>> } }
  IN
  LET GuildIds == {Guild1, Guild2}
  IN
  /\ \/ tw_data \in {Null, EmptyObj}
     \/ \E family \in EventFamilies :
          \E k \in 0..MaxEvents :
            \E events \in [1..k -> family] : tw_data = Document(events)
     \/ \E k \in 0..MaxLongEvents :
          \E events \in [1..k -> LongEvents] : tw_data = Document(events)
  /\ guild_id \in GuildIds
  /\ our_attacks = <<>>
  /\ opponent_attacks = <<>>
  /\ parse_status = "idle"
  /\ guild_data = Null
  /\ call = NoCall
  /\ ret = Ok(Null)
  /\ chat_history = <<>>
  /\ menu = NewMenu

\* Faulty variant of ParseTwAttacks: the set of seen dedup keys outlives the
\* call, so a second call finds every key seen and retains no record.
ParseTwAttacksKeepingSeen ==
  \E r \in {ParseResult(tw_data, guild_id)} :
     /\ parse_status' = IF r.exc = "none" THEN "returned" ELSE r.exc
     /\ our_attacks' = IF r.exc = "none" /\ parse_status # "returned" THEN r.our ELSE <<>>
     /\ opponent_attacks' =
          IF r.exc = "none" /\ parse_status # "returned" THEN r.opp ELSE <<>>
     /\ UNCHANGED <<tw_data, guild_id, guild_data, call, ret, chat_history, menu>>

\* our_df, opponent_df = self._parse_tw_attacks(): the two lists are
\* returned, or the exception of the first event that raises propagates.
ParseTwAttacks ==
  \E r \in {ParseResult(tw_data, guild_id)} :
     /\ parse_status' = IF r.exc = "none" THEN "returned" ELSE r.exc
     /\ our_attacks' = IF r.exc = "none" THEN r.our ELSE <<>>
     /\ opponent_attacks' = IF r.exc = "none" THEN r.opp ELSE <<>>
     /\ UNCHANGED <<tw_data, guild_id, guild_data, call, ret, chat_history, menu>>

Next == ParseTwAttacks

Spec == Init /\ [][Next]_vars

----------------------------------------------------------------------------
(* What the log says, read off the raw document *)

Missing == <<"missing">>

\* The value at a path of dict keys and 1-based list indexes; d when the path
\* leaves the document.
RECURSIVE RawAt(_, _, _)
RawAt(v, path, d) ==
  IF Len(path) = 0 THEN v
  ELSE IF IsObj(v)
  THEN IF Head(path) \in DOMAIN v[2] THEN RawAt(v[2][Head(path)], Tail(path), d) ELSE d
  ELSE IF IsList(v)
  THEN IF Head(path) \in 1..Len(v[2]) THEN RawAt(v[2][Head(path)], Tail(path), d) ELSE d
  ELSE d

Min(S) == CHOOSE x \in S : \A y \in S : x <= y

LoggedEvents == RawAt(tw_data, <<"data">>, EmptyList)[2]

LoggedKey(e) == RawAt(e, <<"payload", "zoneData", "activityLogMessage", "key">>, EmptyStr)
LoggedSquad(e) == RawAt(e, <<"payload", "warSquad">>, Missing)
LoggedStatus(e) == RawAt(e, <<"payload", "warSquad", "squadStatus">>, Null)
LoggedGuild(e) == RawAt(e, <<"payload", "zoneData", "guildId">>, EmptyStr)
LoggedAuthorId(e) == RawAt(e, <<"info", "authorId">>, EmptyStr)
LoggedPlayerId(e) == RawAt(e, <<"payload", "warSquad", "playerId">>, EmptyStr)
LoggedDefends(e) == RawAt(e, <<"payload", "warSquad", "successfulDefends">>, IntV(0))
LoggedBannerValue(e) ==
  RawAt(e, <<"payload", "zoneData", "activityLogMessage", "param", 1, "paramValue", 1>>,
        Missing)

HasSquad(e) == IsObj(LoggedSquad(e)) /\ DOMAIN LoggedSquad(e)[2] # {}

\* SQUAD_WIN, or EMPTY with a non-empty warSquad.
ClassifiedAttack(e) ==
  \/ LoggedKey(e) = StrV(SQUAD_WIN)
  \/ LoggedKey(e) = StrV(EMPTY) /\ HasSquad(e)

LoggedCells(e) ==
  LET cells == RawAt(e, <<"payload", "warSquad", "squad", "cell">>, EmptyList)
  IN IF IsList(cells) THEN cells[2] ELSE <<>>

\* The places of the cells with cellIndex 0.
LeaderCellIdx(e) ==
  LET cells == LoggedCells(e)
  IN { n \in 1..Len(cells) : RawAt(cells[n], <<"cellIndex">>, Null) = IntV(0) }

\* The unitDefId of the first cell with cellIndex 0, cut at its first ':'.
LoggedLeader(e) ==
  LET idx == LeaderCellIdx(e)
  IN IF idx = {} THEN Null
     ELSE LET u == RawAt(LoggedCells(e)[Min(idx)], <<"unitDefId">>, CharsV(<<>>))
              colons == { j \in 1..Len(u[2]) : u[2][j] = ":" }
          IN IF Tag(u) # "chars" THEN u
             ELSE IF colons = {} THEN u
             ELSE CharsV(SubSeq(u[2], 1, Min(colons) - 1))

LoggedDedupKey(e) ==
  <<LoggedAuthorId(e), LoggedPlayerId(e), LoggedLeader(e), LoggedDefends(e)>>

LoggedResult(e) ==
  IF LoggedKey(e) = StrV(SQUAD_WIN) \/ LoggedStatus(e) = IntV(3) THEN "win" ELSE "hold"

LoggedBanners(e) ==
  LET v == LoggedBannerValue(e)
  IN IF v = Missing THEN 0
     ELSE LET n == PyInt(v) IN IF Raised(n) THEN 0 ELSE n.val

\* The attack events of the loaded document: ev the events, att the places of
\* the attack events, key their dedup keys, first the first place of every
\* key, firstOf the first place with the key of a place, own whether the event
\* is of the own guild, rank the place of a first occurrence among the first
\* occurrences of its guild.
Ledger ==
  LET ev == LoggedEvents
      att == { i \in 1..Len(ev) : ClassifiedAttack(ev[i]) }
      key == [i \in att |-> LoggedDedupKey(ev[i])]
      first == { i \in att : \A j \in att : j < i => key[j] # key[i] }
      own == [i \in att |-> LoggedGuild(ev[i]) = guild_id]
  IN [ev |-> ev,
      att |-> att,
      key |-> key,
      keys |-> { key[i] : i \in att },
      first |-> first,
      firstOf |-> [i \in att |-> Min({ j \in att : key[j] = key[i] })],
      own |-> own,
      rank |-> [i \in first |->
                  Cardinality({ j \in first : j <= i /\ own[j] = own[i] })]]

\* The record of first occurrence i of ledger L, when the parser returned one.
HasRec(L, i) ==
  L.rank[i] <= Len(IF L.own[i] THEN our_attacks ELSE opponent_attacks)
Rec(L, i) ==
  IF L.own[i] THEN our_attacks[L.rank[i]] ELSE opponent_attacks[L.rank[i]]

Positions ==
  ({"our"} \X (1..Len(our_attacks))) \cup ({"opp"} \X (1..Len(opponent_attacks)))
At(p) == IF p[1] = "our" THEN our_attacks[p[2]] ELSE opponent_attacks[p[2]]

Returned == parse_status = "returned"

----------------------------------------------------------------------------
(* Claims *)

\* C1: after _parse_tw_attacks the two sequences together hold as many records
\* as there are distinct dedup keys (authorId, playerId, defending leader,
\* successfulDefends) among the attack events, and no key has more than one
\* surviving record.
C1_OneRecordPerKey ==
  Returned =>
    LET L == Ledger
    IN /\ Len(our_attacks) + Len(opponent_attacks) = Cardinality(L.keys)
       /\ \A k \in L.keys :
            Cardinality({ p \in Positions :
                            /\ At(p).attacker_id = k[1]
                            /\ At(p).defender_id = k[2]
                            /\ At(p).defending_leader = k[3] })
              <= Cardinality({ k2 \in L.keys :
                                 k2[1] = k[1] /\ k2[2] = k[2] /\ k2[3] = k[3] })

\* Three attack events, two of them with one key: two records survive.
C1_Witness ==
  /\ Returned
  /\ Cardinality(Ledger.att) = 3
  /\ Cardinality(Ledger.keys) = 2
  /\ Len(our_attacks) + Len(opponent_attacks) = 2

\* C2: when several attack events share a dedup key, the surviving record
\* carries result, banners, squad_power and attacking_guild_id of the first of
\* them; a later event with that key changes nothing (a hold is not turned
\* into a win).
C2_FirstOccurrenceKept ==
  Returned =>
    LET L == Ledger
    IN \A i \in L.att :
         LET f == L.firstOf[i]
             e == L.ev[f]
         IN /\ HasRec(L, f)
            /\ Rec(L, f).result_type = LoggedResult(e)
            /\ Rec(L, f).banners = LoggedBanners(e)
            /\ Rec(L, f).squad_power = RawAt(e, <<"payload", "warSquad", "power">>, IntV(0))
            /\ Rec(L, f).attacking_guild_id = LoggedGuild(e)

\* A hold is followed by a win with the same key and stays a hold.
C2_Witness ==
  /\ Returned
  /\ LET L == Ledger
     IN \E i, j \in L.att :
          /\ i < j
          /\ L.firstOf[j] = i
          /\ LoggedResult(L.ev[i]) = "hold"
          /\ LoggedResult(L.ev[j]) = "win"
          /\ LoggedBanners(L.ev[i]) # LoggedBanners(L.ev[j])
          /\ HasRec(L, i)
          /\ Rec(L, i).result_type = "hold"

\* The records of the first occurrences on one side, in the order of the log.
ExpectedSide(L, own) ==
  LET S == { i \in L.first : L.own[i] = own }
      Nth(n) == CHOOSE i \in S : Cardinality({ j \in S : j <= i }) = n
  IN [n \in 1..Cardinality(S) |-> ProcessEvent(L.ev[Nth(n)]).data]

\* C3: every surviving record is in exactly one sequence, the own-guild one iff
\* zoneData.guildId equals guild_id, and each sequence keeps the order of the
\* events in the log.
C3_PartitionInOrder ==
  Returned =>
    LET L == Ledger
        ours == ExpectedSide(L, TRUE)
        theirs == ExpectedSide(L, FALSE)
    IN /\ \A n \in 1..Len(our_attacks) : our_attacks[n].attacking_guild_id = guild_id
       /\ \A n \in 1..Len(opponent_attacks) :
            opponent_attacks[n].attacking_guild_id # guild_id
       /\ Len(our_attacks) = Len(ours)
       /\ Len(opponent_attacks) = Len(theirs)
       /\ \A n \in 1..Len(our_attacks) : our_attacks[n] = ours[n]
       /\ \A n \in 1..Len(opponent_attacks) : opponent_attacks[n] = theirs[n]

\* Two different own-guild records and an opponent record.
C3_Witness ==
  /\ Returned
  /\ Len(our_attacks) = 2
  /\ Len(opponent_attacks) = 1
  /\ our_attacks[1] # our_attacks[2]

\* C4: no event whose warSquad.squadStatus is 2 produces a retained record:
\* every record comes from an attack event with another status.
C4_Status2NeverRetained ==
  Returned =>
    LET L == Ledger
    IN \A p \in Positions :
         \E i \in L.att :
           /\ LoggedStatus(L.ev[i]) # IntV(2)
           /\ ProcessEvent(L.ev[i]).data = At(p)

\* C5: result_type of a retained record is 'win' iff the key of its event is
\* SQUAD_WIN or its squadStatus is 3, and 'hold' otherwise.
C5_ResultType ==
  Returned =>
    LET L == Ledger
    IN /\ \A p \in Positions : At(p).result_type \in {"win", "hold"}
       /\ \A i \in L.first :
            /\ HasRec(L, i)
            /\ Rec(L, i).result_type = "win" <=>
                 \/ LoggedKey(L.ev[i]) = StrV(SQUAD_WIN)
                 \/ LoggedStatus(L.ev[i]) = IntV(3)

\* An EMPTY event with squadStatus 3 is retained as a win.
C5_Witness ==
  /\ Returned
  /\ LET L == Ledger
     IN \E i \in L.first :
          /\ LoggedKey(L.ev[i]) = StrV(EMPTY)
          /\ LoggedStatus(L.ev[i]) = IntV(3)
          /\ HasRec(L, i)
          /\ Rec(L, i).result_type = "win"

\* C6: an event yields a record candidate iff its key is SQUAD_WIN, or EMPTY
\* with a non-empty warSquad; attacker id/name are info.authorId/authorName
\* and defender id/name are warSquad.playerId/playerName; the single win of
\* Alice on Bob with banner param "42" gives one own-guild record.
C6_Classification ==
  Returned =>
    LET L == Ledger
    IN /\ { <<At(p).attacker_id, At(p).defender_id>> : p \in Positions }
            = { <<LoggedAuthorId(L.ev[i]), LoggedPlayerId(L.ev[i])>> : i \in L.att }
       /\ \A i \in L.first :
            /\ HasRec(L, i)
            /\ Rec(L, i).attacker_id = LoggedAuthorId(L.ev[i])
            /\ Rec(L, i).attacker_name = RawAt(L.ev[i], <<"info", "authorName">>, EmptyStr)
            /\ Rec(L, i).defender_id = LoggedPlayerId(L.ev[i])
            /\ Rec(L, i).defender_name =
                 RawAt(L.ev[i], <<"payload", "warSquad", "playerName">>, EmptyStr)
       /\ (L.ev = <<BaseEvent>> /\ guild_id = Guild1) =>
            /\ Len(our_attacks) = 1
            /\ Len(opponent_attacks) = 0
            /\ our_attacks[1].attacker_name = StrV("Alice")
            /\ our_attacks[1].defender_name = StrV("Bob")
            /\ our_attacks[1].banners = 42
            /\ our_attacks[1].result_type = "win"

\* An EMPTY event without warSquad is skipped next to the win of Alice on Bob.
C6_Witness ==
  /\ Returned
  /\ Len(LoggedEvents) = 2
  /\ LoggedKey(LoggedEvents[1]) = StrV(EMPTY)
  /\ ~HasSquad(LoggedEvents[1])
  /\ LoggedEvents[2] = BaseEvent
  /\ guild_id = Guild1
  /\ Len(our_attacks) = 1
  /\ Len(opponent_attacks) = 0

\* C7: every record has banners >= 0, whatever paramValue[0] is.
C7_BannersNonNegative ==
  Returned => \A p \in Positions : At(p).banners >= 0

\* Reading and casting the banner parameter fails.
BannerCastFails(e) ==
  LET v == LoggedBannerValue(e)
  IN v = Missing \/ Raised(PyInt(v))

\* C8: banner extraction never raises and never drops the record: whenever
\* reading param[0].paramValue[0] and casting it fails, the record is produced
\* with banners = 0.
C8_BannerFailureGivesZero ==
  (/\ parse_status # "idle"
   /\ \A i \in 1..Len(LoggedEvents) : LoggedEvents[i] \in BannerEvents \cup Companions)
  => /\ Returned
     /\ LET L == Ledger
        IN \A i \in L.first :
             BannerCastFails(L.ev[i]) => HasRec(L, i) /\ Rec(L, i).banners = 0

\* C9: a record with a missing or null nested field never aborts the batch:
\* the parse completes, and a record with no attacker id is retained with the
\* default id.
C9_MalformedNeverAborts ==
  (/\ parse_status # "idle"
   /\ \A i \in 1..Len(LoggedEvents) : LoggedEvents[i] \in MalformedEvents \cup Companions)
  =>
    /\ Returned
    /\ LET L == Ledger
       IN \A i \in L.first :
            RawAt(L.ev[i], <<"info", "authorId">>, Missing) = Missing
              => HasRec(L, i) /\ Rec(L, i).attacker_id = EmptyStr

\* C10: defending_leader is the unitDefId of the first cell with cellIndex 0,
\* cut at its first ':' when there is one, and null iff there is no such cell.
C10_DefendingLeader ==
  Returned =>
    LET L == Ledger
    IN \A i \in L.first :
         /\ HasRec(L, i)
         /\ Rec(L, i).defending_leader = LoggedLeader(L.ev[i])
         /\ Rec(L, i).defending_leader = Null <=> LeaderCellIdx(L.ev[i]) = {}

\* The leader cell comes second and has no ':'; another event has two ':'.
C10_Witness ==
  /\ Returned
  /\ LET L == Ledger
     IN \E i, j \in L.first :
          /\ LoggedCells(L.ev[i])
               = <<DelPath(Cell(0, <<"K">>), <<"cellIndex">>), Cell(0, <<"V">>)>>
          /\ HasRec(L, i)
          /\ Rec(L, i).defending_leader = CharsV(<<"V">>)
          /\ LoggedCells(L.ev[j]) = <<Cell(0, <<"K", ":", "7", ":", "Z">>)>>
          /\ HasRec(L, j)
          /\ Rec(L, j).defending_leader = CharsV(<<"K">>)

----------------------------------------------------------------------------
(* pandas: frames are sequences of rows, numbers that may be means are     *)
(* fractions num/den with den > 0                                          *)

Rat(n, d) == [num |-> n, den |-> d]
RatZero == Rat(0, 1)
RatEq(a, b) == a.num * b.den = b.num * a.den
RatLess(a, b) == a.num * b.den < b.num * a.den
RatAdd(a, b) == Rat(a.num * b.den + b.num * a.den, a.den * b.den)

\* A JSON int as a number (squad_power is read straight from the document).
NumOf(v) == v[2]

RECURSIVE SumInts(_)
SumInts(s) == IF Len(s) = 0 THEN 0 ELSE Head(s) + SumInts(Tail(s))

RECURSIVE SumRats(_)
SumRats(s) == IF Len(s) = 0 THEN RatZero ELSE RatAdd(Head(s), SumRats(Tail(s)))

\* Series.mean() of ints and of fractions (never called on an empty series
\* by the code that is modelled).
MeanInts(s) == Rat(SumInts(s), Len(s))

Column(df, f) == [i \in 1..Len(df) |-> df[i][f]]
Banners(df) == Column(df, "banners")
Powers(df) == [i \in 1..Len(df) |-> NumOf(df[i].squad_power)]

\* pd.notna
NotNa(v) == v # Null

\* df.head(n): the first n rows, all but the last -n rows when n < 0.
DfHead(s, n) ==
  IF n >= 0 THEN SubSeq(s, 1, IF n < Len(s) THEN n ELSE Len(s))
  ELSE SubSeq(s, 1, IF Len(s) + n > 0 THEN Len(s) + n ELSE 0)

\* sort_values: every arrangement of the rows S in which no row comes after
\* a row it must precede; before[<<a, b>>] says a sorts strictly before b.
\* The default sort is not stable, rows that tie come in any order.
RECURSIVE OrderedSeqs(_, _)
OrderedSeqs(S, before) ==
  IF S = {} THEN {<<>>}
  ELSE UNION { { <<x>> \o s : s \in OrderedSeqs(S \ {x}, before) } :
               x \in { x \in S : \A y \in S : ~before[<<y, x>>] } }

WinsOf(df) == SelectSeq(df, LAMBDA r : r.result_type = "win")
HoldsOf(df) == SelectSeq(df, LAMBDA r : r.result_type = "hold")

\* (count / total_attempts * 100) if total_attempts > 0 else 0
RateOf(count, total_attempts) ==
  IF total_attempts > 0 THEN Rat(count * 100, total_attempts) ELSE RatZero

\* wins_only['banners'].mean() if len(wins_only) > 0 else 0
AvgBannersOnWins(group) ==
  IF Len(WinsOf(group)) > 0 THEN MeanInts(Banners(WinsOf(group))) ELSE RatZero

----------------------------------------------------------------------------
(* _calculate_guild_stats, _get_top_performers *)

ZeroStats ==
  [total_attacks |-> 0, total_banners |-> 0, unique_players |-> 0,
   avg_banners |-> RatZero, avg_power |-> RatZero]

CalculateGuildStats(df) ==
  IF Len(df) = 0 THEN ZeroStats
  ELSE [total_attacks |-> Len(df),
        total_banners |-> SumInts(Banners(df)),
        unique_players |->
          Cardinality({ df[i].attacker_id : i \in 1..Len(df) } \ {Null}),
        avg_banners |-> MeanInts(Banners(df)),
        avg_power |-> MeanInts(Powers(df))]

\* groupby(['attacker_id', 'attacker_name']): rows with a null key are dropped.
PlayerKeys(df) ==
  { k \in { <<df[i].attacker_id, df[i].attacker_name>> : i \in 1..Len(df) } :
      NotNa(k[1]) /\ NotNa(k[2]) }

PlayerGroup(df, k) ==
  SelectSeq(df, LAMBDA r : r.attacker_id = k[1] /\ r.attacker_name = k[2])

\* sort_values('total_banners', ascending=False)
ByTotalBannersAsc(S) == [p \in S \X S |-> p[1].total_banners < p[2].total_banners]
ByTotalBanners(S) == [p \in S \X S |-> p[1].total_banners > p[2].total_banners]

\* The lists _get_top_performers(df, limit) can return.
GetTopPerformers(df, limit) ==
  LET PlayerStats(frame) ==
        LET PlayerStatsRow(rows, k) ==
              LET g == PlayerGroup(rows, k)
              IN [player_id |-> k[1], name |-> k[2],
                  total_banners |-> SumInts(Banners(g)),
                  avg_banners |-> MeanInts(Banners(g)),
                  attacks |-> Len(g),
                  avg_power |-> MeanInts(Powers(g))]
        IN
        { PlayerStatsRow(frame, k) : k \in PlayerKeys(frame) }
  IN
  IF Len(df) = 0 THEN {<<>>}
  ELSE LET S == PlayerStats(df)
       IN { DfHead(s, limit) : s \in OrderedSeqs(S, ByTotalBanners(S)) }

----------------------------------------------------------------------------
(* _get_defending_leader_stats, _get_detailed_defending_squads *)

\* Counts wins only, so that holds are lost from the attempts.
GroupStatsWinsOnly(group) ==
  [total_attempts |-> Len(WinsOf(group)),
   wins |-> Len(WinsOf(group)),
   holds |-> Len(HoldsOf(group)),
   win_rate |-> RateOf(Len(WinsOf(group)), Len(WinsOf(group))),
   hold_rate |-> RateOf(Len(HoldsOf(group)), Len(WinsOf(group))),
   avg_banners_on_wins |-> AvgBannersOnWins(group)]

\* The figures both tables compute for one group of records.
GroupStats(group) ==
  [total_attempts |-> Len(group),
   wins |-> Len(WinsOf(group)),
   holds |-> Len(HoldsOf(group)),
   win_rate |-> RateOf(Len(WinsOf(group)), Len(group)),
   hold_rate |-> RateOf(Len(HoldsOf(group)), Len(group)),
   avg_banners_on_wins |-> AvgBannersOnWins(group)]

\* sort_values('hold_rate', ascending=False)
ByHoldRate(S) == [p \in S \X S |-> RatLess(p[2].hold_rate, p[1].hold_rate)]

\* The lists _get_defending_leader_stats(df, limit) can return.
GetDefendingLeaderStats(df, limit) ==
  LET \* df[df['defending_leader'].notna()]
      WithLeaders(frame) == SelectSeq(frame, LAMBDA r : NotNa(r.defending_leader))
  IN
  LET LeaderRow(rows, leader) ==
        [leader |-> leader] @@
        GroupStats(SelectSeq(rows, LAMBDA r : r.defending_leader = leader))
  IN
  IF Len(df) = 0 \/ Len(WithLeaders(df)) = 0 THEN {<<>>}
  ELSE LET v == WithLeaders(df)
           S == { LeaderRow(v, l) : l \in { v[i].defending_leader : i \in 1..Len(v) } }
       IN { DfHead(s, limit) : s \in OrderedSeqs(S, ByHoldRate(S)) }

\* sort_values(['hold_rate', 'total_attempts'], ascending=[False, False])
ByHoldRateThenAttempts(S) ==
  [p \in S \X S |->
     \/ RatLess(p[2].hold_rate, p[1].hold_rate)
     \/ RatEq(p[1].hold_rate, p[2].hold_rate) /\ p[1].total_attempts > p[2].total_attempts]

\* The lists _get_detailed_defending_squads(df) can return.
GetDetailedDefendingSquads(df) ==
  LET \* df[(df['defending_leader'].notna()) & (df['defender_name'].notna())]
      ValidSquads(frame) ==
        SelectSeq(frame, LAMBDA r : NotNa(r.defending_leader) /\ NotNa(r.defender_name))
  IN
  LET SquadRow(rows, k) ==
        [defender_name |-> k[1], leader |-> k[2]] @@
        GroupStats(SelectSeq(rows, LAMBDA r : r.defender_name = k[1] /\ r.defending_leader = k[2]))
  IN
  IF Len(df) = 0 \/ Len(ValidSquads(df)) = 0 THEN {<<>>}
  ELSE LET v == ValidSquads(df)
           S == { SquadRow(v, k) :
                    k \in { <<v[i].defender_name, v[i].defending_leader>> : i \in 1..Len(v) } }
       IN OrderedSeqs(S, ByHoldRateThenAttempts(S))

----------------------------------------------------------------------------
(* _get_defense_contributors: the deployment events of the own guild *)

DEFENSE_FLEET_DEPLOY == "TERRITORY_CHANNEL_ACTIVITY_CONFLICT_DEFENSE_FLEET_DEPLOY"

IsSquadDeployKey(event_type) == event_type = StrV(DEFENSE_DEPLOY)
IsFleetDeployKey(event_type) == event_type = StrV(DEFENSE_FLEET_DEPLOY)

\* for cell in cells: the first cell whose cellIndex == 0 decides, then break.
RECURSIVE DeployLeaderOfCells(_)
DeployLeaderOfCells(cells) ==
  LET \* if ':' in unit_def_id: defending_leader = unit_def_id.split(':')[0]
      \* (defending_leader stays None otherwise)
      DeployStripSuffix(unit_def_id) ==
        IF Tag(unit_def_id) # "chars" THEN Raise("TypeError")
        ELSE IF HasColon(unit_def_id[2])
        THEN Ok(CharsV(BeforeColon(unit_def_id[2])))
        ELSE Ok(Null)
  IN
  IF Len(cells) = 0 THEN Ok(Null)
  ELSE LET cell == Head(cells)
           cell_index == DotGet(cell, "cellIndex", Null)
       IN IF Raised(cell_index) THEN cell_index
          ELSE IF cell_index.val = IntV(0)
          THEN DeployStripSuffix(Get(cell, "unitDefId", CharsV(<<>>)))
          ELSE DeployLeaderOfCells(Tail(cells))

\* The leader of a deployed warSquad.
ExtractDeployLeader(war_squad) ==
  LET squad == IF Truthy(war_squad) THEN DotGet(war_squad, "squad", Null) ELSE Ok(Null)
  IN IF Raised(squad) THEN squad
     ELSE IF ~Truthy(squad.val) THEN Ok(Null)
     ELSE LET cells == DotGet(squad.val, "cell", EmptyList)
          IN IF Raised(cells) THEN cells
             ELSE IF ~IsList(cells.val) THEN Raise("TypeError")
             ELSE DeployLeaderOfCells(cells.val[2])

Deployment(player_id, player_name, leader, power) ==
  [player_id |-> player_id, player_name |-> player_name, leader |-> leader,
   power |-> power]

\* One pass of the deployment loop body: the event raises, is no deployment
\* of guild gid, or gives a deployment row.
ProcessDeploy(event, gid) ==
  LET NoDeploy == [kind |-> "none"]
  IN
  LET Deploy(row) == [kind |-> "deploy", row |-> row]
  IN
  LET payload == Get(event, "payload", EmptyObj)
      zone_data == DotGet(payload, "zoneData", EmptyObj)
  IN IF Raised(zone_data) THEN Abort(zone_data.exc) ELSE
  LET activity_log == DotGet(zone_data.val, "activityLogMessage", EmptyObj)
  IN IF Raised(activity_log) THEN Abort(activity_log.exc) ELSE
  LET event_type == DotGet(activity_log.val, "key", EmptyStr)
  IN IF Raised(event_type) THEN Abort(event_type.exc) ELSE
  IF ~(IsSquadDeployKey(event_type.val) \/ IsFleetDeployKey(event_type.val))
  THEN NoDeploy ELSE
  IF Get(zone_data.val, "guildId", EmptyStr) # gid THEN NoDeploy ELSE
  LET info == Get(event, "info", EmptyObj)
      war_squad == Get(payload, "warSquad", EmptyObj)
      defending_leader == ExtractDeployLeader(war_squad)
  IN IF Raised(defending_leader) THEN Abort(defending_leader.exc) ELSE
  IF ~IsObj(info) THEN Abort("AttributeError") ELSE
  Deploy(Deployment(Get(info, "authorId", EmptyStr),
                    Get(info, "authorName", EmptyStr),
                    defending_leader.val,
                    IF Truthy(war_squad)
                    THEN Rat(NumOf(Get(war_squad, "power", IntV(0))), 1)
                    ELSE RatZero))

\* deployments, or the exception the loop stops with.
RECURSIVE Deployments(_, _)
Deployments(events, gid) ==
  IF Len(events) = 0 THEN Ok(<<>>)
  ELSE LET r == ProcessDeploy(Head(events), gid)
       IN IF r.kind = "raise" THEN Raise(r.exc)
          ELSE LET rest == Deployments(Tail(events), gid)
               IN IF Raised(rest) THEN rest
                  ELSE IF r.kind = "none" THEN rest
                  ELSE Ok(<<r.row>> \o rest.val)

----------------------------------------------------------------------------
(* _get_defense_contributors: deployments inferred from the opponent's     *)
(* attacks, and the table per player                                       *)

\* opponent_df[['defender_name', 'defending_leader']].drop_duplicates()
RECURSIVE AttackedSquads(_, _)
AttackedSquads(df, seen) ==
  IF Len(df) = 0 THEN <<>>
  ELSE LET k == <<Head(df).defender_name, Head(df).defending_leader>>
       IN IF k \in seen THEN AttackedSquads(Tail(df), seen)
          ELSE <<k>> \o AttackedSquads(Tail(df), seen \cup {k})

\* The row added for an attacked squad: power is the mean over its attacks.
InferredDeployment(opponent_df, k) ==
  LET SquadAttacks(rows, squad) ==
        SelectSeq(rows, LAMBDA r : r.defender_name = squad[1] /\ r.defending_leader = squad[2])
  IN
  Deployment(EmptyStr, k[1], k[2], MeanInts(Powers(SquadAttacks(opponent_df, k))))

\* The loop over the attacked squads that adds the missing ones.
RECURSIVE AddInferred(_, _, _)
AddInferred(deployments_df, squads, opponent_df) ==
  LET \* (deployments_df['player_name'] == defender) & (deployments_df['leader']
      \* == leader): an elementwise == is False where either side is None.
      ExistingDeployments(rows, k) ==
        SelectSeq(rows,
                  LAMBDA d : /\ NotNa(k[1]) /\ NotNa(k[2])
                             /\ d.player_name = k[1] /\ d.leader = k[2])
  IN
  IF Len(squads) = 0 THEN deployments_df
  ELSE LET k == Head(squads)
       IN IF Len(ExistingDeployments(deployments_df, k)) = 0 /\ NotNa(k[2])
          THEN AddInferred(Append(deployments_df, InferredDeployment(opponent_df, k)),
                           Tail(squads), opponent_df)
          ELSE AddInferred(deployments_df, Tail(squads), opponent_df)

\* No deployment event at all: groupby(['player_name', 'leader']) over the
\* attacked squads, which drops the rows with a null name or leader. The
\* order of the rows of this frame is never observed.
RECURSIVE InferAll(_, _)
InferAll(squads, opponent_df) ==
  IF Len(squads) = 0 THEN <<>>
  ELSE LET k == Head(squads)
       IN IF NotNa(k[1]) /\ NotNa(k[2])
          THEN <<InferredDeployment(opponent_df, k)>> \o InferAll(Tail(squads), opponent_df)
          ELSE InferAll(Tail(squads), opponent_df)

\* Faulty variant of ByHoldsThenSquads: sort_values('holds') alone.
ByHoldsOnly(S) == [p \in S \X S |-> p[1].holds > p[2].holds]

\* sort_values(['holds', 'squads_deployed'], ascending=[False, False])
ByHoldsThenSquads(S) ==
  [p \in S \X S |->
     \/ p[1].holds > p[2].holds
     \/ p[1].holds = p[2].holds /\ p[1].squads_deployed > p[2].squads_deployed]

\* The table of the players of deployments_df in every order the sort can
\* give. opponent_df is a frame without columns when the opponent made no
\* attack, and so is stats_df when no player is left: indexing either by a
\* column name raises KeyError.
DefenseTable(deployments_df, opponent_df) ==
  LET \* One row of the table: the player's deployments and the attacks on them.
      DefenseRow(player_name, deployed, attacked) ==
        LET MeanRats(s) == LET t == SumRats(s) IN Rat(t.num, t.den * Len(s))
        IN
        LET player_group == SelectSeq(deployed, LAMBDA d : d.player_name = player_name)
            player_attacks == SelectSeq(attacked, LAMBDA r : r.defender_name = player_name)
            tested == Len(player_attacks) > 0
            wins_only == WinsOf(player_attacks)
        IN [player_name |-> player_name,
            squads_deployed |-> Len(player_group),
            avg_squad_power |-> MeanRats(Column(player_group, "power")),
            total_attempts |-> Len(player_attacks),
            wins |-> Len(wins_only),
            holds |-> Len(HoldsOf(player_attacks)),
            win_rate |-> RateOf(Len(wins_only), Len(player_attacks)),
            hold_rate |-> RateOf(Len(HoldsOf(player_attacks)), Len(player_attacks)),
            banners_given_up |-> IF tested THEN SumInts(Banners(wins_only)) ELSE 0,
            avg_banners_given_up |-> AvgBannersOnWins(player_attacks)]
  IN
  LET names == { deployments_df[i].player_name : i \in 1..Len(deployments_df) } \ {Null}
  IN IF names = {} \/ Len(opponent_df) = 0 THEN {Raise("KeyError")}
     ELSE LET S == { DefenseRow(n, deployments_df, opponent_df) : n \in names }
          IN { Ok(s) : s \in OrderedSeqs(S, ByHoldsThenSquads(S)) }

\* The outcomes of _get_defense_contributors() on a context (tw_data,
\* guild_id): each intermediate value is computed once and bound.
GetDefenseContributors(doc, gid) ==
  LET \* deployments_df as it stands before the table is built.
      DeploymentsFrame(deployments, opponent_df) ==
        IF Len(deployments) > 0
        THEN IF Len(opponent_df) > 0
             THEN AddInferred(deployments, AttackedSquads(opponent_df, {}), opponent_df)
             ELSE deployments
        ELSE InferAll(AttackedSquads(opponent_df, {}), opponent_df)
  IN
  IF ~Truthy(doc) THEN {Ok(<<>>)} ELSE
  UNION { IF Raised(deployments) THEN {Raise(deployments.exc)}
          ELSE IF parsed.exc # "none" THEN {Raise(parsed.exc)}
          ELSE IF Len(deployments.val) = 0 /\ Len(parsed.opp) = 0 THEN {Ok(<<>>)}
          ELSE UNION { DefenseTable(deployments_df, parsed.opp) :
                       deployments_df \in {DeploymentsFrame(deployments.val, parsed.opp)} } :
          deployments \in {Deployments(EventsOf(doc)[2], gid)},
          parsed \in {ParseResult(doc, gid)} }

----------------------------------------------------------------------------
(* get_guild_roster *)

\* [member.get('playerName', '') for member in members if member.get('playerName')]
RECURSIVE PlayerNames(_)
PlayerNames(members) ==
  IF Len(members) = 0 THEN Ok(<<>>)
  ELSE LET name == DotGet(Head(members), "playerName", Null)
       IN IF Raised(name) THEN name
          ELSE LET rest == PlayerNames(Tail(members))
               IN IF Raised(rest) THEN rest
                  ELSE IF Truthy(name.val) THEN Ok(<<name.val>> \o rest.val)
                  ELSE rest

\* get_guild_roster() on a context whose guild_data is gd: except Exception
\* turns every failure into the empty list.
GetGuildRoster(gd) ==
  LET \* The body of the try block.
      RosterTry(document) ==
        LET \* The comprehension over members: iterating anything but a list of dicts
            \* raises (None is not iterable, the items of a dict or a str have no .get),
            \* except that an empty dict or str gives no item at all.
            RosterMembers(members) ==
              IF ~IsList(members)
              THEN IF Tag(members) \in {"obj", "str", "chars"}
                   THEN IF Truthy(members) THEN Raise("AttributeError") ELSE Ok(<<>>)
                   ELSE Raise("TypeError")
              ELSE PlayerNames(members[2])
        IN
        LET events == DotGet(document, "events", EmptyObj)
        IN IF Raised(events) THEN events ELSE
        LET guild == DotGet(events.val, "guild", EmptyObj)
        IN IF Raised(guild) THEN guild ELSE
        LET members == DotGet(guild.val, "member", EmptyList)
        IN IF Raised(members) THEN members ELSE RosterMembers(members.val)
  IN
  IF ~Truthy(gd) THEN <<>>
  ELSE LET r == RosterTry(gd) IN IF Raised(r) THEN <<>> ELSE r.val

----------------------------------------------------------------------------
(* get_participation_report *)

EmptyDict == [k \in {} |-> Null]

OffensiveStats(df) ==
  LET \* One row of offensive_stats; wins is the sum of is_win.
      OffenseRow(rows, k) ==
        LET g == PlayerGroup(rows, k)
        IN [player_id |-> k[1], player_name |-> k[2],
            total_banners |-> SumInts(Banners(g)),
            wins |-> Len(SelectSeq(g, LAMBDA r : r.is_win)),
            attacks |-> Len(g)]
  IN
  { OffenseRow(df, k) : k \in PlayerKeys(df) }

\* offensive_stats[offensive_stats['player_name'] == player_name].iloc[0]:
\* groupby sorts by (attacker_id, attacker_name), the first row is the one
\* with the least attacker_id.
FirstOffenseRow(offensive_stats, player_name) ==
  LET \* The player ids of the documents below in the order of Python's str <.
      PyStrOrder == <<"", "A", "A2", "B", "C", "D", "X">>
  IN
  LET StrBefore(a, b) ==
        (CHOOSE i \in 1..Len(PyStrOrder) : PyStrOrder[i] = a[2])
          < (CHOOSE i \in 1..Len(PyStrOrder) : PyStrOrder[i] = b[2])
  IN
  CHOOSE r \in offensive_stats :
    /\ r.player_name = player_name
    /\ \A o \in offensive_stats :
         o.player_name = player_name => ~StrBefore(o.player_id, r.player_id)

\* Counts the deployment events of every guild.
CountsDeploymentOfAnyGuild(zone_data, gid) == TRUE

\* zone_data.get('guildId', '') == self.guild_id
CountsDeploymentOf(zone_data, gid) == Get(zone_data, "guildId", EmptyStr) = gid

\* deployment_banners after the events: player_name -> squads and fleets, or
\* the exception the loop stops with.
RECURSIVE DeploymentBanners(_, _, _)
DeploymentBanners(events, gid, counts) ==
  IF Len(events) = 0 THEN Ok(counts) ELSE
  LET event == Head(events)
      payload == Get(event, "payload", EmptyObj)
      zone_data == DotGet(payload, "zoneData", EmptyObj)
  IN IF Raised(zone_data) THEN zone_data ELSE
  LET activity_log == DotGet(zone_data.val, "activityLogMessage", EmptyObj)
  IN IF Raised(activity_log) THEN activity_log ELSE
  LET event_type == DotGet(activity_log.val, "key", EmptyStr)
  IN IF Raised(event_type) THEN event_type ELSE
  IF ~CountsDeploymentOf(zone_data.val, gid)
  THEN DeploymentBanners(Tail(events), gid, counts) ELSE
  LET player_name == DotGet(Get(event, "info", EmptyObj), "authorName", EmptyStr)
  IN IF Raised(player_name) THEN player_name ELSE
  LET n == player_name.val
      old == IF n \in DOMAIN counts THEN counts[n] ELSE [squads |-> 0, fleets |-> 0]
  IN IF IsSquadDeployKey(event_type.val)
     THEN DeploymentBanners(Tail(events), gid,
            [m \in DOMAIN counts \cup {n} |->
               IF m = n THEN [old EXCEPT !.squads = @ + 1] ELSE counts[m]])
     ELSE IF IsFleetDeployKey(event_type.val)
     THEN DeploymentBanners(Tail(events), gid,
            [m \in DOMAIN counts \cup {n} |->
               IF m = n THEN [old EXCEPT !.fleets = @ + 1] ELSE counts[m]])
     ELSE DeploymentBanners(Tail(events), gid, counts)

SQUAD_DEPLOY_BANNERS == 30
FLEET_DEPLOY_BANNERS == 34

\* The names the roster adds to all_players.
RosterNames(gd, expected_roster, use_guild_roster) ==
  IF use_guild_roster /\ Truthy(gd)
  THEN { GetGuildRoster(gd)[i] : i \in 1..Len(GetGuildRoster(gd)) }
  ELSE IF Truthy(expected_roster)
  THEN { expected_roster[2][i] : i \in 1..Len(expected_roster[2]) }
  ELSE {}

\* Faulty variant of Underperforming: a total at the threshold counts as below it.
UnderperformingAtThreshold(participated_offense, total_banners, min_banners) ==
  participated_offense /\ total_banners <= min_banners

\* participated_offense and total_banners < min_banners
Underperforming(participated_offense, total_banners, min_banners) ==
  participated_offense /\ total_banners < min_banners

\* The entry of participation_list for one name of all_players.
ParticipationRow(player_name, offensive_stats, defense_df, deployment_banners, min_banners, min_attacks) ==
  LET \* squads_deployed > 0
      ParticipatedDefense(squads_deployed) == squads_deployed > 0
  IN
  LET \* attacks >= min_attacks
      ParticipatedOffense(attacks, least) == attacks >= least
  IN
  LET attacked == \E r \in offensive_stats : r.player_name = player_name
      player_offense == FirstOffenseRow(offensive_stats, player_name)
      attacks == IF attacked THEN player_offense.attacks ELSE 0
      offensive_banners == IF attacked THEN player_offense.total_banners ELSE 0
      wins == IF attacked THEN player_offense.wins ELSE 0
      defended == \E i \in 1..Len(defense_df) : defense_df[i].player_name = player_name
      player_defense ==
        defense_df[CHOOSE i \in 1..Len(defense_df) : defense_df[i].player_name = player_name]
      squads_deployed == IF defended THEN player_defense.squads_deployed ELSE 0
      defensive_holds == IF defended THEN player_defense.holds ELSE 0
      defensive_banners ==
        IF player_name \in DOMAIN deployment_banners
        THEN deployment_banners[player_name].squads * SQUAD_DEPLOY_BANNERS
               + deployment_banners[player_name].fleets * FLEET_DEPLOY_BANNERS
        ELSE 0
      total_banners == offensive_banners + defensive_banners
      participated_offense == ParticipatedOffense(attacks, min_attacks)
      participated_defense == ParticipatedDefense(squads_deployed)
  IN [player_name |-> player_name,
      attacks |-> attacks,
      offensive_banners |-> offensive_banners,
      defensive_banners |-> defensive_banners,
      total_banners |-> total_banners,
      wins |-> wins,
      squads_deployed |-> squads_deployed,
      defensive_holds |-> defensive_holds,
      participated_offense |-> participated_offense,
      participated_defense |-> participated_defense,
      underperforming |-> Underperforming(participated_offense, total_banners, min_banners)]

\* The dict returned for one order participation_df can be sorted into.
Report(participation_df, all_players, min_banners) ==
  [total_players |-> Cardinality(all_players),
   players_who_attacked |-> Len(SelectSeq(participation_df, LAMBDA r : r.attacks > 0)),
   players_who_defended |->
     Len(SelectSeq(participation_df, LAMBDA r : r.squads_deployed > 0)),
   min_banners_threshold |-> min_banners,
   underperformers |-> SelectSeq(participation_df, LAMBDA r : r.underperforming),
   non_participants |->
     SelectSeq(participation_df,
               LAMBDA r : ~r.participated_offense /\ ~r.participated_defense),
   all_participants |-> participation_df]

\* The report in every order participation_df can be sorted into; a frame
\* of no rows has no column to sort by.
Reports(all_players, offensive_stats, defense_df, deployment_banners, min_banners, min_attacks) ==
  IF all_players = {} THEN {Raise("KeyError")}
  ELSE UNION { { Ok(Report(s, all_players, min_banners)) :
                   s \in OrderedSeqs(S, ByTotalBanners(S)) } :
               S \in { { ParticipationRow(n, offensive_stats, defense_df,
                                          deployment_banners, min_banners, min_attacks) :
                           n \in all_players } } }

\* The outcomes of get_participation_report(min_banners, min_attacks,
\* expected_roster, use_guild_roster) on a context (tw_data, guild_id,
\* guild_data): each intermediate value is computed once and bound. The rows
\* looked up in the defense table do not depend on the order of that table.
GetParticipationReport(doc, gid, gd, min_banners, min_attacks, expected_roster, use_guild_roster) ==
  LET ZeroReport ==
        [total_players |-> 0, players_who_attacked |-> 0, players_who_defended |-> 0,
         underperformers |-> <<>>, non_participants |-> <<>>]
  IN
  IF ~Truthy(doc) THEN {Ok(EmptyDict)} ELSE
  UNION { IF parsed.exc # "none" THEN {Raise(parsed.exc)}
          ELSE IF Len(parsed.our) = 0 THEN {Ok(ZeroReport)}
          ELSE UNION {
            IF Raised(defense_contributors) THEN {defense_contributors}
            ELSE IF Raised(deployment_banners) THEN {deployment_banners}
            ELSE UNION {
              Reports(all_players, offensive_stats, defense_contributors.val,
                      deployment_banners.val, min_banners, min_attacks) :
              all_players \in {
                { r.player_name : r \in offensive_stats }
                  \cup { defense_contributors.val[i].player_name :
                           i \in 1..Len(defense_contributors.val) }
                  \cup DOMAIN deployment_banners.val
                  \cup RosterNames(gd, expected_roster, use_guild_roster) } } :
            offensive_stats \in {OffensiveStats(parsed.our)},
            defense_contributors \in {CHOOSE o \in GetDefenseContributors(doc, gid) : TRUE},
            deployment_banners \in {DeploymentBanners(EventsOf(doc)[2], gid, EmptyDict)} } :
          parsed \in {ParseResult(doc, gid)} }

----------------------------------------------------------------------------
(* get_tw_summary *)

\* guild_name of the context (the default of __init__).
GuildName == StrV("DarthJedii56")

\* The summary of a log in which the own guild has attacked.
Summaries(our_df, opponent_df, contributors) ==
  { IF Raised(dc) THEN dc
    ELSE Ok(CalculateGuildStats(our_df) @@
            [guild_name |-> GuildName,
             opponent_stats |-> CalculateGuildStats(opponent_df),
             top_performers |-> tp,
             defending_leaders_we_faced |-> lf,
             our_defending_leaders |-> ol,
             detailed_enemy_squads |-> es,
             detailed_our_squads |-> os,
             defense_contributors |-> dc.val,
             our_df |-> our_df,
             opponent_df |-> opponent_df]) :
    tp \in GetTopPerformers(our_df, 10),
    lf \in GetDefendingLeaderStats(our_df, 10),
    ol \in GetDefendingLeaderStats(opponent_df, 10),
    es \in GetDetailedDefendingSquads(our_df),
    os \in GetDetailedDefendingSquads(opponent_df),
    dc \in contributors }

\* The outcomes of get_tw_summary() on a context (tw_data, guild_id); the
\* keys '_our_df' and '_opponent_df' are the fields our_df and opponent_df.
GetTwSummary(doc, gid) ==
  IF ~Truthy(doc) THEN {Ok(EmptyDict)} ELSE
  UNION { IF parsed.exc # "none" THEN {Raise(parsed.exc)}
          ELSE IF Len(parsed.our) = 0 THEN {Ok([guild_name |-> GuildName] @@ ZeroStats)}
          ELSE Summaries(parsed.our, parsed.opp, GetDefenseContributors(doc, gid)) :
          parsed \in {ParseResult(doc, gid)} }

----------------------------------------------------------------------------
(* The documents the aggregators and reports are run on. Guild1 is the own *)
(* guild: Alice (ids A and A2) and Amy attack Eve's squads, Xan of Guild2  *)
(* attacks the squads of Bob and Dan, who deploy them.                     *)

MaxTableEvents == 2
MaxReportEvents == 2
MaxReportLong == 3
MaxLimit == 2

\* The events of the war logs, by name.
WarLog ==
  LET Banner(cs) == Param(CharsV(cs))
      KSquad == <<Cell(0, <<"K", ":", "7">>), Cell(1, <<"M", ":", "7">>)>>
      LSquad == <<Cell(0, <<"L", ":", "7">>)>>
      KPlain == <<Cell(0, <<"K">>)>>
      NoLeader == <<Cell(1, <<"M", ":", "7">>)>>
  IN
    [ AliceWin |->
        Event(SQUAD_WIN, Guild1, "A", "Alice", Banner(<<"4", "2">>),
              WarSquad("E", "Eve", 3, 0, 500, KSquad)),
      AliceWinL |->
        Event(SQUAD_WIN, Guild1, "A", "Alice", Banner(<<"6", "0">>),
              WarSquad("E", "Eve", 3, 0, 700, LSquad)),
      AliceHold |->
        Event(EMPTY, Guild1, "A", "Alice", Banner(<<"5">>),
              WarSquad("E", "Eve", 1, 1, 500, KSquad)),
      AmyDefeat |->
        Event(EMPTY, Guild1, "C", "Amy", Banner(<<"4", "2">>),
              WarSquad("E", "Eve", 3, 0, 500, KSquad)),
      Alice2Win |->
        Event(SQUAD_WIN, Guild1, "A2", "Alice", Banner(<<"5", "0">>),
              WarSquad("E", "Eve", 3, 0, 500, KSquad)),
      AmyWinNoLeader |->
        Event(SQUAD_WIN, Guild1, "C", "Amy", Banner(<<"4", "2">>),
              WarSquad("E", "Eve", 3, 0, 500, NoLeader)),
      XanWin |->
        Event(SQUAD_WIN, Guild2, "X", "Xan", Banner(<<"1", "0">>),
              WarSquad("B", "Bob", 3, 0, 500, KSquad)),
      XanHold |->
        Event(EMPTY, Guild2, "X", "Xan", Banner(<<"0">>),
              WarSquad("B", "Bob", 1, 1, 500, KSquad)),
      XanWinDan |->
        Event(SQUAD_WIN, Guild2, "X", "Xan", Banner(<<"2", "0">>),
              WarSquad("D", "Dan", 3, 0, 700, LSquad)),
      XanWinNoLeader |->
        Event(SQUAD_WIN, Guild2, "X", "Xan", Banner(<<"3", "0">>),
              WarSquad("B", "Bob", 3, 0, 500, NoLeader)),
      BobDeploy |->
        Event(DEFENSE_DEPLOY, Guild1, "B", "Bob", EmptyList,
              WarSquad("B", "Bob", 1, 0, 500, KSquad)),
      BobDeployPlain |->
        Event(DEFENSE_DEPLOY, Guild1, "B", "Bob", EmptyList,
              WarSquad("B", "Bob", 1, 0, 500, KPlain)),
      DanFleetDeploy |->
        Event(DEFENSE_FLEET_DEPLOY, Guild1, "D", "Dan", EmptyList,
              WarSquad("D", "Dan", 1, 0, 700, LSquad)),
      AliceDeploy |->
        Event(DEFENSE_DEPLOY, Guild1, "A", "Alice", EmptyList,
              WarSquad("A", "Alice", 1, 0, 500, LSquad)),
      XanDeploy |->
        Event(DEFENSE_DEPLOY, Guild2, "X", "Xan", EmptyList,
              WarSquad("X", "Xan", 1, 0, 500, KSquad)) ]

\* The attack events the ranked tables are computed from.
TableEvents ==
  { WarLog.AliceWin, WarLog.AliceWinL, WarLog.AliceHold, WarLog.AmyDefeat,
    WarLog.Alice2Win, WarLog.AmyWinNoLeader, WarLog.XanWin, WarLog.XanHold,
    WarLog.XanWinDan, WarLog.XanWinNoLeader }

\* The attack and deployment events the reports are computed from.
ReportEvents ==
  { WarLog.AliceWin, WarLog.XanWin, WarLog.XanHold, WarLog.XanWinNoLeader,
    WarLog.BobDeploy, WarLog.BobDeployPlain, WarLog.DanFleetDeploy,
    WarLog.XanDeploy, WarLog.Alice2Win }

\* The events of the long lists: attacks of either guild, a squad deployment
\* of a player who also attacks and a fleet deployment.
ReportLongEvents ==
  { WarLog.AliceWin, WarLog.AmyDefeat, WarLog.XanWin, WarLog.AliceDeploy,
    WarLog.DanFleetDeploy }

\* Guild-membership documents: events is one object or an array whose first
\* element holds the guild; a member may lack a name.
GuildDocuments ==
  LET Members ==
        ListV(<<ObjV([playerName |-> StrV("Alice")]),
                ObjV([playerName |-> StrV("")]),
                ObjV([playerId |-> StrV("Q")]),
                ObjV([playerName |-> StrV("Zed")])>>)
      GuildObject(members) == ObjV([guild |-> ObjV([member |-> members])])
  IN
  { ObjV([events |-> GuildObject(Members)]),
    ObjV([events |-> ListV(<<GuildObject(Members)>>)]),
    ObjV([events |-> GuildObject(EmptyList)]),
    ObjV([events |-> GuildObject(Null)]),
    ObjV([events |-> EmptyObj]),
    ObjV([name |-> StrV("guild")]),
    EmptyObj }

\* The event lists that are combined with the guild documents.
RosterEventLists ==
  { <<>>, <<WarLog.AliceWin>>, <<WarLog.AmyWinNoLeader, WarLog.XanWin>> }

\* Arguments of get_participation_report: min_banners, min_attacks,
\* expected_roster, use_guild_roster.
ReportArgs ==
  LET ExpectedRoster == ListV(<<StrV("Zed"), StrV("Alice")>>)
  IN
  { <<50, 1, Null, TRUE>>, <<42, 1, Null, TRUE>>, <<50, 2, EmptyList, TRUE>>,
    <<50, 0, ExpectedRoster, TRUE>>, <<50, 1, ExpectedRoster, FALSE>> }

----------------------------------------------------------------------------
(* The context and the calls of the aggregators and reports on it *)

Called(op, args) == [op |-> op, args |-> args]

Frame(parsed, name) == IF name = "our_df" THEN parsed.our ELSE parsed.opp

TwSummary ==
  \E o \in GetTwSummary(tw_data, guild_id) :
     /\ call' = Called("get_tw_summary", <<>>)
     /\ ret' = o
     /\ UNCHANGED <<tw_data, guild_id, guild_data, our_attacks, opponent_attacks,
                    parse_status, chat_history, menu>>

\* _get_top_performers(df, limit) on a frame that _parse_tw_attacks returned.
TopPerformers ==
  \E parsed \in {ParseResult(tw_data, guild_id)} :
     /\ parsed.exc = "none"
     /\ \E name \in {"our_df", "opponent_df"}, limit \in 0..MaxLimit :
          \E rows \in GetTopPerformers(Frame(parsed, name), limit) :
             /\ call' = Called("_get_top_performers", <<name, limit>>)
             /\ ret' = Ok(rows)
     /\ UNCHANGED <<tw_data, guild_id, guild_data, our_attacks, opponent_attacks,
                    parse_status, chat_history, menu>>

DefendingLeaderStats ==
  \E parsed \in {ParseResult(tw_data, guild_id)} :
     /\ parsed.exc = "none"
     /\ \E name \in {"our_df", "opponent_df"}, limit \in 0..MaxLimit :
          \E rows \in GetDefendingLeaderStats(Frame(parsed, name), limit) :
             /\ call' = Called("_get_defending_leader_stats", <<name, limit>>)
             /\ ret' = Ok(rows)
     /\ UNCHANGED <<tw_data, guild_id, guild_data, our_attacks, opponent_attacks,
                    parse_status, chat_history, menu>>

DetailedDefendingSquads ==
  \E parsed \in {ParseResult(tw_data, guild_id)} :
     /\ parsed.exc = "none"
     /\ \E name \in {"our_df", "opponent_df"} :
          \E rows \in GetDetailedDefendingSquads(Frame(parsed, name)) :
             /\ call' = Called("_get_detailed_defending_squads", <<name>>)
             /\ ret' = Ok(rows)
     /\ UNCHANGED <<tw_data, guild_id, guild_data, our_attacks, opponent_attacks,
                    parse_status, chat_history, menu>>

DefenseContributors ==
  \E o \in GetDefenseContributors(tw_data, guild_id) :
     /\ call' = Called("_get_defense_contributors", <<>>)
     /\ ret' = o
     /\ UNCHANGED <<tw_data, guild_id, guild_data, our_attacks, opponent_attacks,
                    parse_status, chat_history, menu>>

ParticipationReport ==
  \E a \in ReportArgs :
     \E o \in GetParticipationReport(tw_data, guild_id, guild_data,
                                     a[1], a[2], a[3], a[4]) :
        /\ call' = Called("get_participation_report", a)
        /\ ret' = o
        /\ UNCHANGED <<tw_data, guild_id, guild_data, our_attacks, opponent_attacks,
                       parse_status, chat_history, menu>>

GuildRoster ==
  /\ call' = Called("get_guild_roster", <<>>)
  /\ ret' = Ok(GetGuildRoster(guild_data))
  /\ UNCHANGED <<tw_data, guild_id, guild_data, our_attacks, opponent_attacks,
                 parse_status, chat_history, menu>>

\* No call has been made on the context yet.
Fresh ==
  /\ guild_id = Guild1
  /\ our_attacks = <<>>
  /\ opponent_attacks = <<>>
  /\ parse_status = "idle"
  /\ call = NoCall
  /\ ret = Ok(Null)
  /\ chat_history = <<>>
  /\ menu = NewMenu

\* The ranked tables of a loaded log.
TableInit ==
  /\ \E k \in 0..MaxTableEvents :
        \E events \in [1..k -> TableEvents] : tw_data = Document(events)
  /\ guild_data = Null
  /\ Fresh

TableNext ==
  \/ TopPerformers
  \/ DefendingLeaderStats
  \/ DetailedDefendingSquads
  \/ ParseTwAttacks

TableSpec == TableInit /\ [][TableNext]_vars

\* The summary and the reports of a context before and after load_tw_logs
\* and load_guild_data.
ReportInit ==
  /\ \/ tw_data = Null /\ guild_data \in {Null} \cup GuildDocuments
     \/ /\ \E k \in 0..MaxReportEvents :
             \E events \in [1..k -> ReportEvents] : tw_data = Document(events)
        /\ guild_data = Null
     \/ /\ \E k \in 0..MaxReportLong :
             \E events \in [1..k -> ReportLongEvents] : tw_data = Document(events)
        /\ guild_data = Null
     \/ /\ \E events \in RosterEventLists : tw_data = Document(events)
        /\ guild_data \in GuildDocuments
  /\ Fresh

ReportNext ==
  \/ TwSummary
  \/ DefenseContributors
  \/ ParticipationReport
  \/ GuildRoster
  \/ ParseTwAttacks

ReportSpec == ReportInit /\ [][ReportNext]_vars

----------------------------------------------------------------------------
(* What the log says about the players, read off the raw document *)

LoggedAuthorName(e) == RawAt(e, <<"info", "authorName">>, EmptyStr)
LoggedPlayerName(e) == RawAt(e, <<"payload", "warSquad", "playerName">>, EmptyStr)
LoggedPower(e) == RawAt(e, <<"payload", "warSquad", "power">>, IntV(0))

\* The AttackRecords and the deployment events of the loaded document: L the
\* ledger, ours and theirs the places of the surviving attack events of the
\* own guild and of the other guilds, squads and fleets the places of the
\* squad and fleet deployment events of the own guild.
Journal ==
  LET L == IF Truthy(tw_data) THEN Ledger
           ELSE [ev |-> <<>>, first |-> {}, own |-> <<>>]
      deploys == { i \in 1..Len(L.ev) : LoggedGuild(L.ev[i]) = guild_id }
  IN [ev |-> L.ev,
      ours |-> { i \in L.first : L.own[i] },
      theirs |-> { i \in L.first : ~L.own[i] },
      squads |-> { i \in deploys : LoggedKey(L.ev[i]) = StrV(DEFENSE_DEPLOY) },
      fleets |-> { i \in deploys : LoggedKey(L.ev[i]) = StrV(DEFENSE_FLEET_DEPLOY) }]

\* The (defender_name, leader) squads of player p that the opponent attacked.
AttackedSquadsOf(J, p) ==
  { <<LoggedPlayerName(J.ev[i]), LoggedLeader(J.ev[i])>> :
      i \in { i \in J.theirs : /\ LoggedPlayerName(J.ev[i]) = p
                               /\ LoggedLeader(J.ev[i]) # Null } }

\* The explicit deployments of player p.
DeploysOf(J, p) == { i \in J.squads \cup J.fleets : LoggedAuthorName(J.ev[i]) = p }

Answered(op) == call.op = op /\ ret.exc = "none"

\* The members of the guild-membership document, whether events is the object
\* that holds the guild or an array whose first element holds it.
MemberList(gd) ==
  LET events == RawAt(gd, <<"events">>, Null)
      holder == IF IsList(events) THEN RawAt(events, <<1>>, Null) ELSE events
      members == RawAt(holder, <<"guild", "member">>, EmptyList)
  IN IF IsList(members) THEN members[2] ELSE <<>>

\* The non-empty playerName values of the members, in order.
NamedMembers(gd) ==
  LET named == SelectSeq(MemberList(gd),
                         LAMBDA m : Truthy(RawAt(m, <<"playerName">>, Null)))
  IN [i \in 1..Len(named) |-> RawAt(named[i], <<"playerName">>, Null)]

\* The roster supplied to the get_participation_report call in call: the
\* loaded guild roster when it is asked for, else the expected_roster.
SuppliedRoster ==
  IF call.args[4] /\ Truthy(guild_data)
  THEN { NamedMembers(guild_data)[i] : i \in 1..Len(NamedMembers(guild_data)) }
  ELSE IF Truthy(call.args[3])
  THEN { call.args[3][2][i] : i \in 1..Len(call.args[3][2]) }
  ELSE {}

\* The names of the own guild's attackers, of its attacked defenders and of
\* the authors of its deployment events.
ActivePlayers(J) ==
  { LoggedAuthorName(J.ev[i]) : i \in J.ours \cup J.squads \cup J.fleets }
    \cup { LoggedPlayerName(J.ev[i]) :
             i \in { j \in J.theirs : LoggedLeader(J.ev[j]) # Null } }

\* The rows of a participation report.
RowsOf(report) ==
  IF "all_participants" \in DOMAIN report THEN report.all_participants ELSE <<>>

\* The sum of the banners of the events at the places S.
RECURSIVE TotalBanners(_, _)
TotalBanners(J, S) ==
  IF S = {} THEN 0
  ELSE LET i == CHOOSE i \in S : TRUE
       IN LoggedBanners(J.ev[i]) + TotalBanners(J, S \ {i})

----------------------------------------------------------------------------
(* Claims about the aggregators and reports *)

\* C11: in the table of _get_defense_contributors, squads_deployed of a player
\* is the number of the player's explicit deployment events of the own guild
\* plus the number of the player's attacked (defender_name, leader) squads,
\* leader not null, that no explicit deployment of the same player and leader
\* matches; without any explicit deployment it is the number of the player's
\* attacked squads. The leader of a deployed squad is the leader an attack on
\* that squad records.
C11_NoDoubleCount ==
  Answered("_get_defense_contributors") =>
    LET J == Journal
    IN \A n \in 1..Len(ret.val) :
         LET p == ret.val[n].player_name
             explicit == DeploysOf(J, p)
             unmatched == { k \in AttackedSquadsOf(J, p) :
                              \A d \in explicit : LoggedLeader(J.ev[d]) # k[2] }
         IN /\ ret.val[n].squads_deployed = Cardinality(explicit) + Cardinality(unmatched)
            /\ J.squads \cup J.fleets = {} =>
                 ret.val[n].squads_deployed = Cardinality(AttackedSquadsOf(J, p))

\* C12: the participation report of a loaded log has exactly one row per name
\* in the union of the own guild's attackers, defenders and deployers and the
\* names of the supplied roster, total_players is the size of that union, and
\* a player of the roster who neither attacks nor deploys nor is attacked is
\* in non_participants with attacks, banners, wins, squads_deployed and
\* defensive_holds 0 (min_attacks at least 1).
C12_OneRowPerPlayer ==
  (Answered("get_participation_report") /\ Truthy(tw_data)) =>
    LET J == Journal
        players == ActivePlayers(J) \cup SuppliedRoster
        rows == RowsOf(ret.val)
        idle == ret.val.non_participants
    IN /\ ret.val.total_players = Cardinality(players)
       /\ Len(rows) = Cardinality(players)
       /\ { rows[i].player_name : i \in 1..Len(rows) } = players
       /\ call.args[2] >= 1 =>
            \A p \in SuppliedRoster \ ActivePlayers(J) :
               \E i \in 1..Len(idle) :
                  /\ idle[i].player_name = p
                  /\ idle[i].attacks = 0
                  /\ idle[i].total_banners = 0
                  /\ idle[i].wins = 0
                  /\ idle[i].squads_deployed = 0
                  /\ idle[i].defensive_holds = 0

\* The set of the rows of a list of the report.
Listed(rows) == { rows[i] : i \in 1..Len(rows) }

\* C13: in a participation report called with min_banners and min_attacks, a
\* player's row is in underperformers iff attacks >= min_attacks and
\* total_banners < min_banners, it is in non_participants iff
\* attacks < min_attacks and squads_deployed = 0, and participated_offense
\* and participated_defense are the tests attacks >= min_attacks and
\* squads_deployed > 0; both lists hold rows of the report only.
C13_Flags ==
  Answered("get_participation_report") =>
    LET min_banners == call.args[1]
        min_attacks == call.args[2]
        rows == Listed(RowsOf(ret.val))
        under == IF DOMAIN ret.val = {} THEN {} ELSE Listed(ret.val.underperformers)
        idle == IF DOMAIN ret.val = {} THEN {} ELSE Listed(ret.val.non_participants)
    IN /\ under \cup idle \subseteq rows
       /\ \A r \in rows :
            /\ r \in under <=> (r.attacks >= min_attacks /\ r.total_banners < min_banners)
            /\ r \in idle <=> (r.attacks < min_attacks /\ r.squads_deployed = 0)
            /\ r.participated_offense <=> r.attacks >= min_attacks
            /\ r.participated_defense <=> r.squads_deployed > 0

\* A report that lists an underperformer, a non-participant and a player who
\* is neither.
C13_Witness ==
  /\ Answered("get_participation_report")
  /\ DOMAIN ret.val # {}
  /\ Len(ret.val.underperformers) > 0
  /\ Len(ret.val.non_participants) > 0
  /\ Len(RowsOf(ret.val)) > Len(ret.val.underperformers) + Len(ret.val.non_participants)

\* C14: in every row of the participation report defensive_banners is 30 for
\* each squad-deploy event and 34 for each fleet-deploy event of the own guild
\* that the player authored, deploy events of other guilds count for nothing,
\* and total_banners = offensive_banners + defensive_banners.
C14_DeployBanners ==
  Answered("get_participation_report") =>
    LET J == Journal
    IN \A r \in Listed(RowsOf(ret.val)) :
         LET squads == { i \in J.squads : LoggedAuthorName(J.ev[i]) = r.player_name }
             fleets == { i \in J.fleets : LoggedAuthorName(J.ev[i]) = r.player_name }
         IN /\ r.defensive_banners = 30 * Cardinality(squads) + 34 * Cardinality(fleets)
            /\ r.total_banners = r.offensive_banners + r.defensive_banners

\* A report in which a player has banners from attacks and from a deployment,
\* of a log in which the opponent attacks as well.
C14_Witness ==
  /\ Answered("get_participation_report")
  /\ Journal.theirs # {}
  /\ \E r \in Listed(RowsOf(ret.val)) :
        r.offensive_banners > 0 /\ r.defensive_banners > 0

\* C15: on every context, before a log is loaded and after, get_tw_summary
\* and get_participation_report do not raise; the summary has total_attacks
\* the number of the own guild's AttackRecords, total_banners the sum of
\* their banners and unique_players the number of their attacker ids, with
\* avg_banners and avg_power 0.0 when there is no such record; and without
\* such a record the participation report has total_players,
\* players_who_attacked and players_who_defended 0 and empty underperformers
\* and non_participants.
C15_EmptyAndCounts ==
  LET J == Journal
  IN /\ call.op \in {"get_tw_summary", "get_participation_report"} => ret.exc = "none"
     /\ Answered("get_tw_summary") =>
          /\ {"total_attacks", "total_banners", "unique_players", "avg_banners",
               "avg_power"} \subseteq DOMAIN ret.val
          /\ ret.val.total_attacks = Cardinality(J.ours)
          /\ ret.val.total_banners = TotalBanners(J, J.ours)
          /\ ret.val.unique_players =
               Cardinality({ LoggedAuthorId(J.ev[i]) : i \in J.ours })
          /\ J.ours = {} =>
               RatEq(ret.val.avg_banners, RatZero) /\ RatEq(ret.val.avg_power, RatZero)
     /\ (Answered("get_participation_report") /\ J.ours = {}) =>
          /\ {"total_players", "players_who_attacked", "players_who_defended",
               "underperformers", "non_participants"} \subseteq DOMAIN ret.val
          /\ ret.val.total_players = 0
          /\ ret.val.players_who_attacked = 0
          /\ ret.val.players_who_defended = 0
          /\ ret.val.underperformers = <<>>
          /\ ret.val.non_participants = <<>>

\* The places of the AttackRecords of the frame a table was computed from.
FramePlaces(J) == IF call.args[1] = "our_df" THEN J.ours ELSE J.theirs

\* C16: every row of _get_defending_leader_stats and of
\* _get_detailed_defending_squads has a leader that is not null, counts
\* exactly the records of the frame with its leader (and its defender_name),
\* has total_attempts >= 1 and wins + holds = total_attempts, and its
\* win_rate and hold_rate add up to 100.
C16_RatesAddUp ==
  (ret.exc = "none"
     /\ call.op \in {"_get_defending_leader_stats", "_get_detailed_defending_squads"}) =>
    LET J == Journal
    IN \A n \in 1..Len(ret.val) :
         LET r == ret.val[n]
             group ==
               { i \in FramePlaces(J) :
                   /\ LoggedLeader(J.ev[i]) = r.leader
                   /\ call.op = "_get_detailed_defending_squads" =>
                        LoggedPlayerName(J.ev[i]) = r.defender_name }
         IN /\ r.leader # Null
            /\ r.total_attempts = Cardinality(group)
            /\ r.total_attempts >= 1
            /\ r.wins + r.holds = r.total_attempts
            /\ RatEq(RatAdd(r.win_rate, r.hold_rate), Rat(100, 1))

\* A table with a row of a squad that was beaten once and held once.
C16_Witness ==
  /\ Answered("_get_detailed_defending_squads")
  /\ \E n \in 1..Len(ret.val) : ret.val[n].wins > 0 /\ ret.val[n].holds > 0

\* The (attacker_id, attacker_name) group of the event e.
AttackerOf(e) == <<LoggedAuthorId(e), LoggedAuthorName(e)>>

\* C17: _get_top_performers(df, limit) returns at most limit rows, each the
\* row of another (attacker_id, attacker_name) group of the frame with
\* total_banners the sum of the group's banners and attacks the number of its
\* records; the rows are in non-increasing order of total_banners and no
\* group that is left out has more total_banners than a returned one.
C17_TopPerformers ==
  Answered("_get_top_performers") =>
    LET J == Journal
        rows == ret.val
        limit == call.args[2]
        places(k) == { i \in FramePlaces(J) : AttackerOf(J.ev[i]) = k }
        groups == { AttackerOf(J.ev[i]) : i \in FramePlaces(J) }
        key(n) == <<rows[n].player_id, rows[n].name>>
        returned == { key(n) : n \in 1..Len(rows) }
    IN /\ Len(rows) <= limit
       /\ returned \subseteq groups
       /\ Cardinality(returned) = Len(rows)
       /\ \A n \in 1..Len(rows) :
            /\ rows[n].total_banners = TotalBanners(J, places(key(n)))
            /\ rows[n].attacks = Cardinality(places(key(n)))
            /\ \A m \in n..Len(rows) : rows[n].total_banners >= rows[m].total_banners
            /\ \A k \in groups \ returned :
                 TotalBanners(J, places(k)) <= rows[n].total_banners

\* A list of top performers that leaves out a player with fewer banners.
C17_Witness ==
  /\ Answered("_get_top_performers")
  /\ Len(ret.val) = 1
  /\ \E i \in FramePlaces(Journal) :
        /\ AttackerOf(Journal.ev[i]) # <<ret.val[1].player_id, ret.val[1].name>>
        /\ LoggedBanners(Journal.ev[i]) < ret.val[1].total_banners

\* C18: every row of _get_defense_contributors has total_attempts the number
\* of the opponent's AttackRecords on the player, wins + holds =
\* total_attempts and banners_given_up the sum of the banners of the wins
\* among them; and every player who deployed and was never attacked has a
\* row with total_attempts, wins, holds, hold_rate and banners_given_up 0.
C18_DefenseRows ==
  call.op = "_get_defense_contributors" =>
    LET J == Journal
        rows == IF ret.exc = "none" THEN ret.val ELSE <<>>
        attacks(p) == { i \in J.theirs : LoggedPlayerName(J.ev[i]) = p }
        won(p) == { i \in attacks(p) : LoggedResult(J.ev[i]) = "win" }
        deployers == { LoggedAuthorName(J.ev[i]) : i \in J.squads \cup J.fleets }
    IN /\ \A n \in 1..Len(rows) :
            /\ rows[n].total_attempts = Cardinality(attacks(rows[n].player_name))
            /\ rows[n].wins + rows[n].holds = rows[n].total_attempts
            /\ rows[n].banners_given_up = TotalBanners(J, won(rows[n].player_name))
       /\ \A p \in { d \in deployers : attacks(d) = {} } :
            \E n \in 1..Len(rows) :
               /\ rows[n].player_name = p
               /\ rows[n].total_attempts = 0
               /\ rows[n].wins = 0
               /\ rows[n].holds = 0
               /\ RatEq(rows[n].hold_rate, RatZero)
               /\ rows[n].banners_given_up = 0

C20_RosterBothShapes ==
  Answered("get_guild_roster") => ret.val = NamedMembers(guild_data)

----------------------------------------------------------------------------
(* analyze_tw_logs of swgoh_api_client.py, from the parsed document on *)

\* The loop body: only SQUAD_WIN events give a record, nothing is deduplicated.
AnalyzeEvent(event) ==
  LET payload == Get(event, "payload", EmptyObj)
      zone_data == DotGet(payload, "zoneData", EmptyObj)
  IN IF Raised(zone_data) THEN Abort(zone_data.exc) ELSE
  LET activity_log == DotGet(zone_data.val, "activityLogMessage", EmptyObj)
  IN IF Raised(activity_log) THEN Abort(activity_log.exc) ELSE
  LET activity_key == DotGet(activity_log.val, "key", EmptyStr)
  IN IF Raised(activity_key) THEN Abort(activity_key.exc) ELSE
  IF ~IsWinKey(activity_key.val) THEN Skip ELSE
  LET war_squad == Get(payload, "warSquad", EmptyObj)
      info == Get(event, "info", EmptyObj)
      banners == ExtractBanners(activity_log.val)
  IN IF Raised(banners) THEN Abort(banners.exc) ELSE
  IF ~IsObj(info) \/ ~IsObj(war_squad) THEN Abort("AttributeError") ELSE
  LET timestamp == PyInt(Get(info, "timestamp", IntV(0)))
  IN IF Raised(timestamp) THEN Abort(timestamp.exc) ELSE
  Attack(Null,
         [attacker_id |-> Get(info, "authorId", EmptyStr),
          attacker_name |-> Get(info, "authorName", EmptyStr),
          defender_id |-> Get(war_squad, "playerId", EmptyStr),
          defender_name |-> Get(war_squad, "playerName", EmptyStr),
          banners |-> banners.val,
          squad_power |-> Get(war_squad, "power", IntV(0)),
          zone_id |-> Get(zone_data.val, "zoneId", EmptyStr),
          timestamp |-> timestamp.val,
          guild_id |-> Get(zone_data.val, "guildId", EmptyStr)])

\* The loop over the events: st holds our_attacks, opponent_attacks and the
\* exception that ended the loop, if any.
RECURSIVE AnalyzeEvents(_, _, _)
AnalyzeEvents(events, our_guild_id, st) ==
  IF Len(events) = 0 THEN st
  ELSE LET r == AnalyzeEvent(Head(events))
       IN IF r.kind = "raise" THEN [st EXCEPT !.exc = r.exc]
          ELSE IF r.kind = "skip" THEN AnalyzeEvents(Tail(events), our_guild_id, st)
          ELSE IF r.data.guild_id = our_guild_id
          THEN AnalyzeEvents(Tail(events), our_guild_id,
                             [st EXCEPT !.our = Append(@, r.data)])
          ELSE AnalyzeEvents(Tail(events), our_guild_id,
                             [st EXCEPT !.opp = Append(@, r.data)])

\* events = data.get('data', []): the rows of our_df and opponent_df that
\* analyze_tw_logs builds from the document data.
AnalyzeResult(data, our_guild_id) ==
  AnalyzeEvents(Get(data, "data", EmptyList)[2], our_guild_id,
                [our |-> <<>>, opp |-> <<>>, exc |-> "none"])

\* analyze_tw_logs(file_path, our_guild_id) on the file that holds tw_data.
AnalyzeTwLogs ==
  \E r \in {AnalyzeResult(tw_data, guild_id)} :
     /\ call' = Called("analyze_tw_logs", <<>>)
     /\ ret' = IF r.exc = "none" THEN Ok([our_df |-> r.our, opponent_df |-> r.opp])
                                ELSE Raise(r.exc)
     /\ UNCHANGED <<tw_data, guild_id, guild_data, our_attacks, opponent_attacks,
                    parse_status, chat_history, menu>>

MaxSourceEvents == 2

\* Log files that keep their event array under data, under events, under
\* both keys or under neither.
SourceDocuments ==
  LET SourceEvents == {WarLog.AliceWin, WarLog.XanWin, WarLog.XanHold, WarLog.BobDeploy}
      Lists(n) == UNION {[1..k -> SourceEvents] : k \in 0..n}
  IN {Document(a) : a \in Lists(MaxSourceEvents)}
     \cup {ObjV([events |-> ListV(a)]) : a \in Lists(MaxSourceEvents)}
     \cup {ObjV([data |-> ListV(a), events |-> ListV(b)]) :
              a \in Lists(MaxSourceEvents - 1), b \in Lists(MaxSourceEvents - 1)}
     \cup {ObjV([name |-> StrV("TW")])}

SourceInit ==
  /\ tw_data \in SourceDocuments
  /\ guild_data = Null
  /\ Fresh

SourceNext ==
  \/ AnalyzeTwLogs
  \/ DefenseContributors
  \/ ParticipationReport
  \/ ParseTwAttacks

SourceSpec == SourceInit /\ [][SourceNext]_vars

\* The document that holds, under data, the array the entry points are to
\* read from doc: the data array or, when data is absent, the events array.
SameEventsUnderData(doc) ==
  Document(RawAt(doc, <<"data">>, RawAt(doc, <<"events">>, EmptyList))[2])

\* C21: every analysis entry point (_parse_tw_attacks,
\* _get_defense_contributors, get_participation_report, analyze_tw_logs)
\* gives, on a document with the event array under data or under events, what
\* it gives on the same array under data; with both keys the data array is used.
C21_EitherKey ==
  LET same == SameEventsUnderData(tw_data)
      parsed == ParseResult(same, guild_id)
      analyzed == AnalyzeResult(same, guild_id)
  IN /\ parse_status = "returned" =>
          our_attacks = parsed.our /\ opponent_attacks = parsed.opp
     /\ call.op = "_get_defense_contributors" =>
          ret \in GetDefenseContributors(same, guild_id)
     /\ call.op = "get_participation_report" =>
          ret \in GetParticipationReport(same, guild_id, guild_data, call.args[1],
                                         call.args[2], call.args[3], call.args[4])
     /\ call.op = "analyze_tw_logs" =>
          ret = Ok([our_df |-> analyzed.our, opponent_df |-> analyzed.opp])

----------------------------------------------------------------------------
(* The ranked tables *)

RankInit == TableInit \/ ReportInit

RankNext ==
  \/ DefendingLeaderStats
  \/ DetailedDefendingSquads
  \/ DefenseContributors
  \/ ParticipationReport
  \/ ParseTwAttacks

RankSpec == RankInit /\ [][RankNext]_vars

\* rows is in non-increasing order of before: no row is before an earlier one.
Ranked(rows, before(_, _)) ==
  \A m, n \in 1..Len(rows) : m < n => ~before(rows[n], rows[m])

\* C22: _get_defending_leader_stats(df, limit) returns rows of non-increasing
\* hold_rate, min(limit, number of leaders) of them, and no leader left out
\* has a greater hold_rate than a returned one; the rows of
\* _get_detailed_defending_squads are in non-increasing order of hold_rate
\* and, among equal hold_rate, of total_attempts; the rows of
\* _get_defense_contributors in non-increasing order of holds and, among
\* equal holds, of squads_deployed; all_participants, underperformers and
\* non_participants in non-increasing order of total_banners.
C22_RankedTables ==
  LET ByRate(a, b) == RatLess(b.hold_rate, a.hold_rate)
      ByRateThenAttempts(a, b) ==
        \/ RatLess(b.hold_rate, a.hold_rate)
        \/ RatEq(a.hold_rate, b.hold_rate) /\ a.total_attempts > b.total_attempts
      ByHoldsThenDeployed(a, b) ==
        \/ a.holds > b.holds
        \/ a.holds = b.holds /\ a.squads_deployed > b.squads_deployed
      ByBanners(a, b) == a.total_banners > b.total_banners
  IN /\ Answered("_get_defending_leader_stats") =>
          LET J == Journal
              rows == ret.val
              group(l) == { i \in FramePlaces(J) : LoggedLeader(J.ev[i]) = l }
              held(l) == { i \in group(l) : LoggedResult(J.ev[i]) = "hold" }
              leaders == { LoggedLeader(J.ev[i]) : i \in FramePlaces(J) } \ {Null}
              returned == { rows[n].leader : n \in 1..Len(rows) }
          IN /\ Ranked(rows, ByRate)
             /\ Len(rows) = Min({call.args[2], Cardinality(leaders)})
             /\ Cardinality(returned) = Len(rows)
             /\ returned \subseteq leaders
             /\ \A l \in leaders \ returned : \A n \in 1..Len(rows) :
                   ~RatLess(rows[n].hold_rate,
                            Rat(100 * Cardinality(held(l)), Cardinality(group(l))))
     /\ Answered("_get_detailed_defending_squads") => Ranked(ret.val, ByRateThenAttempts)
     /\ Answered("_get_defense_contributors") => Ranked(ret.val, ByHoldsThenDeployed)
     /\ (Answered("get_participation_report") /\ DOMAIN ret.val # {}) =>
          /\ Ranked(RowsOf(ret.val), ByBanners)
          /\ Ranked(ret.val.underperformers, ByBanners)
          /\ Ranked(ret.val.non_participants, ByBanners)

\* A defense table with two players of equal holds, the one with more squads
\* deployed first.
C22_Witness ==
  /\ Answered("_get_defense_contributors")
  /\ Len(ret.val) >= 2
  /\ ret.val[1].holds = ret.val[2].holds
  /\ ret.val[1].squads_deployed > ret.val[2].squads_deployed

----------------------------------------------------------------------------
(* load_tw_logs *)

BoolV(b) == <<"bool", b>>

\* The text of a file is a sequence of pieces: "space" is whitespace,
\* "header" text without '{' that is no JSON, "object" the text of the JSON
\* object doc (its first character is '{'), "array" the text '[' object ']'
\* and "broken" a '{' that nothing closes.
Piece(kind, doc) == [kind |-> kind, doc |-> doc]

\* json_start = content.find('{'); if json_start > 0: content =
\* content[json_start:]. The first '{' of an array is its second character.
FromFirstBrace(content) ==
  LET braced == { i \in 1..Len(content) : content[i].kind \in {"object", "array", "broken"} }
  IN IF braced = {} THEN content
     ELSE LET i == Min(braced)
              rest == SubSeq(content, i + 1, Len(content))
          IN IF content[i].kind = "array"
             THEN <<Piece("object", content[i].doc), Piece("header", Null)>> \o rest
             ELSE <<content[i]>> \o rest

\* json.loads(content): one JSON value between optional whitespace, or
\* JSONDecodeError.
JsonLoads(content) ==
  LET text == SelectSeq(content, LAMBDA piece : piece.kind # "space")
  IN IF Len(text) = 1 /\ text[1].kind = "object" THEN Ok(text[1].doc)
     ELSE IF Len(text) = 1 /\ text[1].kind = "array" THEN Ok(ListV(<<text[1].doc>>))
     ELSE Raise("JSONDecodeError")

MaxPieces == 2

\* The files load_tw_logs is given: file.exists tells whether open() finds
\* it, file.content is its text.
LogFiles ==
  LET Docs == {EmptyObj, Document(<<WarLog.AliceWin>>), Document(<<WarLog.XanWin, WarLog.BobDeploy>>)}
      Pieces == {Piece("space", Null), Piece("header", Null), Piece("broken", Null)}
                  \cup {Piece(kind, d) : kind \in {"object", "array"}, d \in Docs}
  IN {NoFile}
       \cup {[exists |-> TRUE, content |-> c] :
               c \in UNION {[1..k -> Pieces] : k \in 0..MaxPieces}}

\* Faulty variant of LoadTwLogs: tw_data is reset before the file is read.
LoadTwLogsClearing ==
  \E file \in LogFiles :
     \E parsed \in {IF file.exists THEN JsonLoads(FromFirstBrace(file.content))
                                   ELSE Raise("FileNotFoundError")} :
        /\ tw_data' = IF Raised(parsed) THEN Null ELSE parsed.val
        /\ call' = Called("load_tw_logs", <<file>>)
        /\ ret' = Ok(BoolV(~Raised(parsed)))
        /\ UNCHANGED <<guild_id, guild_data, our_attacks, opponent_attacks, parse_status, chat_history, menu>>

\* load_tw_logs(file_path): the assignment to tw_data is the last statement
\* that can raise in the try block; every exception gives False.
LoadTwLogs ==
  \E file \in LogFiles :
     \E parsed \in {IF file.exists THEN JsonLoads(FromFirstBrace(file.content))
                                   ELSE Raise("FileNotFoundError")} :
        /\ tw_data' = IF Raised(parsed) THEN tw_data ELSE parsed.val
        /\ call' = Called("load_tw_logs", <<file>>)
        /\ ret' = Ok(BoolV(~Raised(parsed)))
        /\ UNCHANGED <<guild_id, guild_data, our_attacks, opponent_attacks, parse_status, chat_history, menu>>

\* A context from its construction on.
LoadInit ==
  /\ tw_data = Null
  /\ guild_data = Null
  /\ Fresh

LoadNext ==
  \/ LoadTwLogs
  \/ TwSummary
  \/ ParseTwAttacks

LoadSpec == LoadInit /\ [][LoadNext]_vars

\* The text of the file is one JSON value between optional whitespace.
IsJsonText(content) ==
  \E i \in 1..Len(content) :
     /\ content[i].kind \in {"object", "array"}
     /\ \A j \in (1..Len(content)) \ {i} : content[j].kind = "space"

\* The text load_tw_logs hands to the JSON parser: the text of the file
\* without what precedes its first '{'.
TextFromBrace(content) ==
  IF \E i \in 1..Len(content) : content[i].kind \in {"object", "array", "broken"}
  THEN LET i == CHOOSE i \in 1..Len(content) :
                  /\ content[i].kind \in {"object", "array", "broken"}
                  /\ \A j \in 1..(i - 1) : content[j].kind \in {"space", "header"}
           tail == SubSeq(content, i + 1, Len(content))
       IN IF content[i].kind = "array"
          THEN <<Piece("object", content[i].doc), Piece("header", Null)>> \o tail
          ELSE <<content[i]>> \o tail
  ELSE content

\* The JSON object a text holds between optional whitespace.
ObjectOf(content) ==
  LET i == CHOOSE i \in 1..Len(content) : content[i].kind = "object"
  IN content[i].doc

\* C23, as stated: a load_tw_logs call on a missing file or on a file whose
\* text is not valid JSON returns False, a call that returns False leaves
\* tw_data as it was, and a call that returns True has replaced tw_data by
\* the parsed document.
C23_FailedLoadAsStated ==
  [][call'.op = "load_tw_logs" =>
       LET file == call'.args[1]
       IN /\ ret'.exc = "none"
          /\ (~file.exists \/ ~IsJsonText(file.content)) => ret'.val = BoolV(FALSE)
          /\ ret'.val = BoolV(FALSE) => tw_data' = tw_data
          /\ ret'.val = BoolV(TRUE) => tw_data' = ObjectOf(TextFromBrace(file.content))]_vars

\* C23, amended: a load_tw_logs call on a missing file, or on a file whose
\* text from its first '{' on is not valid JSON, returns False without
\* raising; a call that returns False leaves tw_data as it was, and a call
\* returns True only when tw_data has been replaced by the document parsed
\* from that text.
C23_FailedLoad ==
  [][call'.op = "load_tw_logs" =>
       LET file == call'.args[1]
       IN /\ ret'.exc = "none"
          /\ ret'.val \in {BoolV(FALSE), BoolV(TRUE)}
          /\ (~file.exists \/ ~IsJsonText(TextFromBrace(file.content))) =>
               ret'.val = BoolV(FALSE)
          /\ ret'.val = BoolV(FALSE) => tw_data' = tw_data
          /\ ret'.val = BoolV(TRUE) =>
               /\ file.exists
               /\ IsJsonText(TextFromBrace(file.content))
               /\ tw_data' = ObjectOf(TextFromBrace(file.content))]_vars

\* A load has failed on a context that holds a loaded log, and the log is
\* still there.
C23_Witness ==
  /\ Answered("load_tw_logs")
  /\ ret.val = BoolV(FALSE)
  /\ Truthy(tw_data)

\* C24: for the warSquad of every event of the log that
\* _get_defense_contributors has gone through, the leader its deployment
\* rule derives is the defending_leader the rule of _parse_tw_attacks
\* derives, a unitDefId without ':' included.
C24_SameLeaderRule ==
  Answered("_get_defense_contributors") =>
    \A i \in 1..Len(LoggedEvents) :
       LET war_squad == RawAt(LoggedEvents[i], <<"payload", "warSquad">>, EmptyObj)
       IN ExtractDeployLeader(war_squad) = ExtractLeader(war_squad)

\* C25: when the log holds an AttackRecord of the opponent or a deployment
\* event of the own guild, the summary get_tw_summary returns has the keys
\* opponent_stats, our_defending_leaders, detailed_our_squads and
\* defense_contributors, and the report get_participation_report returns
\* has a row for every own-guild deployer and for every defender the
\* opponent attacked, whether or not the own guild has attacked.
C25_DefensiveViews ==
  LET J == Journal
      defensive == J.theirs \cup J.squads \cup J.fleets
      defenders == { LoggedAuthorName(J.ev[i]) : i \in J.squads \cup J.fleets }
                     \cup { LoggedPlayerName(J.ev[i]) :
                              i \in { j \in J.theirs : LoggedLeader(J.ev[j]) # Null } }
  IN /\ (Answered("get_tw_summary") /\ defensive # {}) =>
          {"opponent_stats", "our_defending_leaders", "detailed_our_squads",
           "defense_contributors"} \subseteq DOMAIN ret.val
     /\ Answered("get_participation_report") =>
          \A p \in defenders :
             \E n \in 1..Len(RowsOf(ret.val)) : RowsOf(ret.val)[n].player_name = p

\* C26: in the report get_participation_report returns for a loaded log, the
\* attacks of the rows of all_participants add up to the number of own-guild
\* AttackRecords and their offensive_banners to the banners of those
\* records, also when two attacker_id values share one attacker_name.
C26_AttacksConserved ==
  (Answered("get_participation_report") /\ Truthy(tw_data)) =>
    LET J == Journal
        rows == RowsOf(ret.val)
    IN /\ SumInts([n \in 1..Len(rows) |-> rows[n].attacks]) = Cardinality(J.ours)
       /\ SumInts([n \in 1..Len(rows) |-> rows[n].offensive_banners])
            = TotalBanners(J, J.ours)

\* C27: in the report get_participation_report returns for a loaded log, the
\* wins of the row of a player (of a name that belongs to one attacker_id)
\* are the number of the player's own-guild AttackRecords whose result_type
\* is 'win': key SQUAD_WIN or squadStatus 3.
C27_WinsByResultType ==
  (Answered("get_participation_report") /\ Truthy(tw_data)) =>
    LET J == Journal
        rows == RowsOf(ret.val)
        records(p) == { i \in J.ours : LoggedAuthorName(J.ev[i]) = p }
    IN \A n \in 1..Len(rows) :
         Cardinality({ LoggedAuthorId(J.ev[i]) : i \in records(rows[n].player_name) }) <= 1 =>
           rows[n].wins = Cardinality({ i \in records(rows[n].player_name) :
                                          LoggedResult(J.ev[i]) = "win" })

----------------------------------------------------------------------------
(* SWGOHAIAnalyzer: query, chat, clear_history and get_history *)

MaxChats == 2

\* What chain.invoke, with _get_context_string before it, can do for a
\* question: raise, or return a response with some content.
Invoke(question) ==
  {Raise("Exception")} \cup {Ok(StrV(content)) : content \in {"Alice", "nobody"}}

\* get_history(): HumanMessage gives role user, AIMessage role assistant.
GetHistory(messages) ==
  [n \in 1..Len(messages) |->
     [role |-> IF messages[n].type = "HumanMessage" THEN "user" ELSE "assistant",
      content |-> messages[n].content]]

\* query(question): the history is neither read nor written.
Query ==
  \E question \in {StrV("who won"), StrV("who held")} :
     \E response \in Invoke(question) :
        /\ call' = Called("query", <<question>>)
        /\ ret' = response
        /\ UNCHANGED <<tw_data, guild_id, guild_data, our_attacks, opponent_attacks,
                       parse_status, chat_history, menu>>

\* Faulty variant of Chat: the user message is recorded before the LLM is
\* invoked.
ChatRecordingFirst ==
  /\ Len(chat_history) < 2 * MaxChats
  /\ \E message \in {StrV("who won"), StrV("who held")} :
       \E response \in Invoke(message) :
          /\ chat_history' =
               IF Raised(response)
               THEN Append(chat_history, [type |-> "HumanMessage", content |-> message])
               ELSE chat_history \o <<[type |-> "HumanMessage", content |-> message],
                                      [type |-> "AIMessage", content |-> response.val]>>
          /\ call' = Called("chat", <<message>>)
          /\ ret' = response
  /\ UNCHANGED <<tw_data, guild_id, guild_data, our_attacks, opponent_attacks,
                 parse_status, menu>>

\* chat(message): add_user_message and add_ai_message follow the invocation,
\* an exception of the invocation propagates before them.
Chat ==
  /\ Len(chat_history) < 2 * MaxChats
  /\ \E message \in {StrV("who won"), StrV("who held")} :
       \E response \in Invoke(message) :
          /\ chat_history' =
               IF Raised(response) THEN chat_history
               ELSE chat_history \o <<[type |-> "HumanMessage", content |-> message],
                                      [type |-> "AIMessage", content |-> response.val]>>
          /\ call' = Called("chat", <<message>>)
          /\ ret' = response
  /\ UNCHANGED <<tw_data, guild_id, guild_data, our_attacks, opponent_attacks,
                 parse_status, menu>>

\* clear_history()
ClearHistory ==
  /\ chat_history' = <<>>
  /\ call' = Called("clear_history", <<>>)
  /\ ret' = Ok(Null)
  /\ UNCHANGED <<tw_data, guild_id, guild_data, our_attacks, opponent_attacks,
                 parse_status, menu>>

\* get_history()
History ==
  /\ call' = Called("get_history", <<>>)
  /\ ret' = Ok(GetHistory(chat_history))
  /\ UNCHANGED <<tw_data, guild_id, guild_data, our_attacks, opponent_attacks,
                 parse_status, chat_history, menu>>

\* One analyzer from its construction on.
ChatNext ==
  \/ Query
  \/ Chat
  \/ ClearHistory
  \/ History

ChatSpec == LoadInit /\ [][ChatNext]_vars

\* C28: the history of an analyzer starts empty; a chat call that returns
\* appends the pair (user: its message, assistant: its response) to what
\* get_history gives, a chat call that raises and a query call leave it as
\* it was, clear_history leaves it empty, and get_history returns it: at any
\* time it is the pairs of the chat calls that have returned since the last
\* clear_history, in call order.
C28_History ==
  [][LET before == GetHistory(chat_history)
         after == GetHistory(chat_history')
     IN /\ (call'.op = "chat" /\ ~Raised(ret')) =>
             after = before \o <<[role |-> "user", content |-> call'.args[1]],
                                 [role |-> "assistant", content |-> ret'.val]>>
        /\ (call'.op = "chat" /\ Raised(ret')) => after = before
        /\ call'.op = "query" => after = before
        /\ call'.op = "clear_history" => after = <<>>
        /\ call'.op = "get_history" => after = before /\ ret'.val = before]_vars

\* A chat call has raised on an analyzer whose history holds one exchange,
\* and the history still holds it.
C28_Witness ==
  /\ call.op = "chat"
  /\ Raised(ret)
  /\ Len(chat_history) = 2

----------------------------------------------------------------------------
(* SWGOHMenu: the cache files, the settings and the reports. The context of *)
(* the menu, once created, is the context (tw_data, guild_id, guild_data).  *)

\* The file json.dump(data, f) writes for a dict.
JsonFile(data) == [exists |-> TRUE, content |-> <<Piece("object", data)>>]

\* _ensure_tw_data_loaded() of the menu m whose context, if it has one, is
\* ctx: the value returned, the menu and the context afterwards.
EnsureTwDataLoaded(m, ctx) ==
  IF ~m.tw_logs_file.exists THEN [ok |-> FALSE, menu |-> m, ctx |-> ctx]
  ELSE IF m.context THEN [ok |-> TRUE, menu |-> m, ctx |-> ctx]
  ELSE LET logs == JsonLoads(FromFirstBrace(m.tw_logs_file.content))
           guild == IF m.guild_data_file.exists
                    THEN JsonLoads(FromFirstBrace(m.guild_data_file.content))
                    ELSE Raise("FileNotFoundError")
           created == [m EXCEPT !.context = TRUE]
       IN IF Raised(logs)
          THEN [ok |-> FALSE, menu |-> created,
                ctx |-> [tw_data |-> Null, guild_id |-> m.guild_id, guild_data |-> Null]]
          ELSE [ok |-> TRUE, menu |-> created,
                ctx |-> [tw_data |-> logs.val, guild_id |-> m.guild_id,
                         guild_data |-> IF Raised(guild) THEN Null ELSE guild.val]]

\* A handler that begins with _ensure_tw_data_loaded() and, when that is
\* True, asks the context for get_participation_report(min_banners=50,
\* min_attacks=1) or for get_tw_summary(): ensured is the value of
\* _ensure_tw_data_loaded(), answer what the context returned or raised.
RunReport(op, participation) ==
  \E e \in {EnsureTwDataLoaded(menu, [tw_data |-> tw_data, guild_id |-> guild_id,
                                       guild_data |-> guild_data])} :
     /\ menu' = e.menu
     /\ tw_data' = e.ctx.tw_data
     /\ guild_id' = e.ctx.guild_id
     /\ guild_data' = e.ctx.guild_data
     /\ call' = Called(op, <<>>)
     /\ \E a \in IF ~e.ok THEN {Ok(Null)}
                 ELSE IF participation
                 THEN GetParticipationReport(e.ctx.tw_data, e.ctx.guild_id,
                                             e.ctx.guild_data, 50, 1, Null, TRUE)
                 ELSE GetTwSummary(e.ctx.tw_data, e.ctx.guild_id) :
          ret' = Ok([ensured |-> e.ok, answer |-> a])
     /\ UNCHANGED <<our_attacks, opponent_attacks, parse_status, chat_history>>

\* _ensure_tw_data_loaded() by itself
EnsureLoaded ==
  \E e \in {EnsureTwDataLoaded(menu, [tw_data |-> tw_data, guild_id |-> guild_id,
                                       guild_data |-> guild_data])} :
     /\ menu' = e.menu
     /\ tw_data' = e.ctx.tw_data
     /\ guild_id' = e.ctx.guild_id
     /\ guild_data' = e.ctx.guild_data
     /\ call' = Called("_ensure_tw_data_loaded", <<>>)
     /\ ret' = Ok(BoolV(e.ok))
     /\ UNCHANGED <<our_attacks, opponent_attacks, parse_status, chat_history>>

RunLeaderStatsReport == RunReport("run_leader_stats_report", FALSE)

RunDefenseStatsReport == RunReport("run_defense_stats_report", FALSE)

RunParticipationReport == RunReport("run_participation_report", TRUE)

\* refresh_tw_logs(): without a client, or when the API call raises, nothing
\* is written; else the response replaces tw_logs.json.
RefreshTwLogs ==
  \E data \in {Null, Document(<<WarLog.AliceWin>>),
                Document(<<WarLog.XanWin, WarLog.BobDeploy>>)} :
     /\ menu' = IF data = Null THEN menu ELSE [menu EXCEPT !.tw_logs_file = JsonFile(data)]
     /\ call' = Called("refresh_tw_logs", <<>>)
     /\ ret' = Ok(BoolV(data # Null))
     /\ UNCHANGED <<tw_data, guild_id, guild_data, our_attacks, opponent_attacks,
                    parse_status, chat_history>>

\* refresh_guild_roster(): a response whose code is 0 replaces
\* guild_data.json.
RefreshGuildRoster ==
  \E data \in {Null} \cup
               {ObjV([code |-> IntV(code),
                      events |-> ObjV([guild |-> ObjV([member |->
                         ListV(<<ObjV([playerName |-> StrV("Zed")])>>)])])]) :
                  code \in {0, 1}} :
     \E saved \in {data # Null /\ Get(data, "code", Null) = IntV(0)} :
        /\ menu' = IF saved THEN [menu EXCEPT !.guild_data_file = JsonFile(data)] ELSE menu
        /\ call' = Called("refresh_guild_roster", <<>>)
        /\ ret' = Ok(BoolV(saved))
        /\ UNCHANGED <<tw_data, guild_id, guild_data, our_attacks, opponent_attacks,
                       parse_status, chat_history>>

\* show_settings_menu(), choice 1: a new Guild ID that is not empty.
SetGuildId ==
  \E new_id \in {Guild1, Guild2} :
     /\ menu' = [menu EXCEPT !.guild_id = new_id]
     /\ call' = Called("show_settings_menu", <<StrV("1"), new_id>>)
     /\ ret' = Ok(Null)
     /\ UNCHANGED <<tw_data, guild_id, guild_data, our_attacks, opponent_attacks,
                    parse_status, chat_history>>

\* show_settings_menu(), choice 4 confirmed: the cache files are unlinked.
ClearCachedData ==
  /\ menu' = [menu EXCEPT !.tw_logs_file = NoFile, !.guild_data_file = NoFile]
  /\ call' = Called("show_settings_menu", <<StrV("4"), StrV("yes")>>)
  /\ ret' = Ok(Null)
  /\ UNCHANGED <<tw_data, guild_id, guild_data, our_attacks, opponent_attacks,
                 parse_status, chat_history>>

\* A menu at start-up: tw_logs.json is absent, cut short or whole.
MenuInit ==
  /\ menu \in {[NewMenu EXCEPT !.tw_logs_file = f] :
                 f \in {NoFile, [exists |-> TRUE, content |-> <<Piece("broken", Null)>>],
                        JsonFile(Document(<<WarLog.AliceWin>>))}}
  /\ tw_data = Null
  /\ guild_data = Null
  /\ guild_id = Guild1
  /\ our_attacks = <<>>
  /\ opponent_attacks = <<>>
  /\ parse_status = "idle"
  /\ call = NoCall
  /\ ret = Ok(Null)
  /\ chat_history = <<>>

MenuNext ==
  \/ EnsureLoaded
  \/ RunLeaderStatsReport
  \/ RunDefenseStatsReport
  \/ RunParticipationReport
  \/ RefreshTwLogs
  \/ RefreshGuildRoster
  \/ SetGuildId
  \/ ClearCachedData

MenuSpec == MenuInit /\ [][MenuNext]_vars

\* A report handler of the menu has got past _ensure_tw_data_loaded.
ReportRan ==
  /\ call.op \in {"run_leader_stats_report", "run_defense_stats_report",
                   "run_participation_report"}
  /\ ret.val.ensured

\* C29: whenever _ensure_tw_data_loaded has returned True, by itself or at
\* the head of a report, the menu has a context and that context holds a
\* loaded TW log: after a failed load no call returns True before a load has
\* succeeded.
C29_LoadedWhenTrue ==
  ((call.op = "_ensure_tw_data_loaded" /\ ret = Ok(BoolV(TRUE))) \/ ReportRan) =>
    menu.context /\ tw_data # Null

\* C30: a report of the menu that runs on a context holding a loaded log
\* gives what a context created now, from the guild id of the settings and
\* the cache files as they are, would give: no report is computed from a
\* context loaded before the last refresh, Guild ID change or clearing.
C30_LatestData ==
  (ReportRan /\ tw_data # Null) =>
    LET now == EnsureTwDataLoaded([menu EXCEPT !.context = FALSE],
                                  [tw_data |-> Null, guild_id |-> menu.guild_id,
                                   guild_data |-> Null])
    IN /\ now.ok
       /\ ret.val.answer \in
            IF call.op = "run_participation_report"
            THEN GetParticipationReport(now.ctx.tw_data, now.ctx.guild_id,
                                        now.ctx.guild_data, 50, 1, Null, TRUE)
            ELSE GetTwSummary(now.ctx.tw_data, now.ctx.guild_id)


====
